---- MODULE Spec2Model ----
(***************************************************************************)
(* Request governance layer of rust-ai-toolkit: the per-provider sliding   *)
(* window rate limiter with exponential backoff                            *)
(* (src/utils/rate_limiter.rs) and the response cache with its caching     *)
(* client (src/ai/cache.rs).                                               *)
(*                                                                         *)
(* Time is counted in whole seconds.  The limiter is a process-wide        *)
(* singleton behind a std::sync::Mutex; every public function takes the    *)
(* lock for the length of the call, so each public function is one atomic  *)
(* action.  Callers that use several public functions in a row are         *)
(* modelled with one action per call.  The response cache is a process-    *)
(* wide singleton behind a tokio RwLock; a call on it is one action.       *)
(***************************************************************************)
EXTENDS Integers, Sequences, FiniteSets, TLC

(***************************************************************************)
(* Program constants                                                       *)
(***************************************************************************)
DEFAULT_RPM_LIMIT == 30
ANTHROPIC_RPM_LIMIT == 30
OPENAI_RPM_LIMIT == 60
INITIAL_RETRY_DELAY_MS == 1000
MAX_RETRY_DELAY_MS == 60000
BACKOFF_FACTOR == 2
WINDOW_SECS == 60
\* WARN_THRESHOLD_PERCENT = 0.8, kept as the fraction WarnNum / WarnDen
WarnNum == 8
WarnDen == 10

(***************************************************************************)
(* Bounds of the model                                                     *)
(***************************************************************************)
\* the clock stops after MaxTicks steps of half a window
MaxTicks == 2
\* record_request calls made in one behaviour, all providers together
MaxRequests == 2
\* largest value handed to set_rate_limit
MaxRpm == 1
\* failure / rate-limit events outstanding (not reset), all providers together
MaxFailures == 8
\* concurrent callers
NumCallers == 2
\* largest limit configured before the concurrent callers start
MaxLimit == 2
\* small caps of the specification that runs every public function together
SmallRequests == 1
SmallFailures == 1
SmallTicks == 2
\* item ceiling of the response cache
MaxItems == 2
\* insert calls made on the response cache in one behaviour
MaxInserts == 3
\* the cache clock stops after CacheTicks steps of half a TTL
CacheTicks == 2
\* responses the caching client stores, and calls started on it, in one behaviour
MaxCalls == 2
\* tasks that call the caching client at the same time
NumTasks == 2
\* the clock of the tasks stops after TaskTicks steps of one TTL
TaskTicks == 1
\* ceiling of the project cache (MAX_CACHE_SIZE is 100 in the source)
MaxProjects == 2
\* the clock of the project cache stops after ProjectTicks steps
ProjectTicks == 1
\* items the consumers hold of streams in progress, all streams together
MaxChunks == 2
\* generate calls made on the provider clients in one behaviour
MaxGenerates == 2

(***************************************************************************)
(* Provider identity                                                       *)
(***************************************************************************)
Provider == {"Anthropic", "OpenAI", "Custom"}

\* the provider strings the repository passes to the public functions
Names == {"anthropic", "anthropic_enhanced", "openai", "custom", "test_provider"}

\* one of them for each Provider variant
OneName == {"anthropic_enhanced", "openai", "test_provider"}

From_openai_as_anthropic(provider) ==
    IF provider \in {"anthropic", "anthropic_enhanced"} THEN "Anthropic"
    ELSE IF provider = "openai" THEN "Anthropic"
    ELSE "Custom"

\* impl From<&str> for Provider
From(provider) ==
    IF provider \in {"anthropic", "anthropic_enhanced"} THEN "Anthropic"
    ELSE IF provider = "openai" THEN "OpenAI"
    ELSE "Custom"

(***************************************************************************)
(* ProviderRateLimit: the per-provider record and its methods              *)
(***************************************************************************)
Min(a, b) == IF a < b THEN a ELSE b

RECURSIVE Powi(_, _)
\* f32::powi for a non-negative exponent
Powi(b, n) == IF n = 0 THEN 1 ELSE b * Powi(b, n - 1)

\* ProviderRateLimit::new
ProviderRateLimit_new(rpm_limit) ==
    [requests |-> <<>>,
     rpm_limit |-> rpm_limit,
     consecutive_failures |-> 0,
     last_backoff_delay_ms |-> INITIAL_RETRY_DELAY_MS]

Retained_keeps_boundary(requests, t) ==
    LET one_minute_ago == t - WINDOW_SECS
    IN  SelectSeq(requests, LAMBDA time : time >= one_minute_ago)

\* the retain of cleanup_old_requests
Retained(requests, t) ==
    LET one_minute_ago == t - WINDOW_SECS
    IN  SelectSeq(requests, LAMBDA time : time > one_minute_ago)

\* ProviderRateLimit::cleanup_old_requests
cleanup_old_requests(rl, t) == [rl EXCEPT !.requests = Retained(@, t)]

\* ProviderRateLimit::get_current_rpm, the count it returns
get_current_rpm(rl, t) == Len(cleanup_old_requests(rl, t).requests)

can_make_request_inclusive(rl, t) ==
    Len(cleanup_old_requests(rl, t).requests) <= rl.rpm_limit

\* ProviderRateLimit::can_make_request, the value it returns
can_make_request(rl, t) ==
    Len(cleanup_old_requests(rl, t).requests) < rl.rpm_limit

\* ProviderRateLimit::record_request
record_request(rl, t) == [rl EXCEPT !.requests = Append(@, t)]

record_success_clears_window(rl) ==
    [rl EXCEPT !.consecutive_failures = 0,
               !.last_backoff_delay_ms = INITIAL_RETRY_DELAY_MS,
               !.requests = <<>>]

record_success_keeps_delay(rl) == [rl EXCEPT !.consecutive_failures = 0]

\* ProviderRateLimit::record_success
record_success(rl) ==
    [rl EXCEPT !.consecutive_failures = 0,
               !.last_backoff_delay_ms = INITIAL_RETRY_DELAY_MS]

record_failure_uncapped(rl) ==
    LET n == rl.consecutive_failures + 1
    IN  [rl EXCEPT !.consecutive_failures = n,
                   !.last_backoff_delay_ms =
                       IF n > 1 THEN @ * BACKOFF_FACTOR ELSE @]

\* ProviderRateLimit::record_failure; the delay it returns is the new
\* last_backoff_delay_ms
record_failure(rl) ==
    LET n == rl.consecutive_failures + 1
        scaled == rl.last_backoff_delay_ms * BACKOFF_FACTOR
        d == IF n > 1
             THEN (IF scaled > MAX_RETRY_DELAY_MS THEN MAX_RETRY_DELAY_MS ELSE scaled)
             ELSE rl.last_backoff_delay_ms
    IN  [rl EXCEPT !.consecutive_failures = n, !.last_backoff_delay_ms = d]

record_rate_limit_uncapped(rl) ==
    LET n == rl.consecutive_failures + 1
    IN  [rl EXCEPT !.consecutive_failures = n,
                   !.last_backoff_delay_ms =
                       INITIAL_RETRY_DELAY_MS * Powi(BACKOFF_FACTOR, n)]

record_rate_limit_old_count(rl) ==
    LET n == rl.consecutive_failures + 1
    IN  [rl EXCEPT !.consecutive_failures = n,
                   !.last_backoff_delay_ms =
                       Min(INITIAL_RETRY_DELAY_MS * Powi(BACKOFF_FACTOR, n - 1),
                           MAX_RETRY_DELAY_MS)]

\* ProviderRateLimit::record_rate_limit
record_rate_limit(rl) ==
    LET n == rl.consecutive_failures + 1
    IN  [rl EXCEPT !.consecutive_failures = n,
                   !.last_backoff_delay_ms =
                       Min(INITIAL_RETRY_DELAY_MS * Powi(BACKOFF_FACTOR, n),
                           MAX_RETRY_DELAY_MS)]

(***************************************************************************)
(* ResponseCache (src/ai/cache.rs): strings, keys and cached responses     *)
(***************************************************************************)
\* CACHE_TTL, in seconds
CACHE_TTL == 3600

\* MAX_CACHE_SIZE is 1000 in the source; the model runs the same code with the
\* item ceiling MaxItems, so that the cache fills within a few inserts
MAX_CACHE_SIZE == MaxItems

\* Option<T>
None == <<>>
Some(x) == <<x>>

\* a String is its text and its length in bytes (String::len)
String(text, len) == [text |-> text, len |-> len]

\* the prompts: a short one and one of 600 000 bytes
Prompts == {String("a", 1), String("B", 600000)}

\* the responses: a short one and one of 700 000 bytes
Responses == {String("x", 1), String("Y", 700000)}

\* max_tokens: Option<u32>
MaxTokens == {None, Some(100)}

\* config.max_cache_size_mb: the default of 1 GB, and the smallest value the
\* configuration dialogue accepts
DefaultCacheMb == 1000
CacheMbs == {1, DefaultCacheMb}

\* hash_prompt: the key is the hash of what is fed to the hasher, the prompt
\* and then the token count when there is one; DefaultHasher is taken to be
\* free of collisions, so the key is what was fed
hash_prompt(prompt, max_tokens) == <<prompt.text>> \o max_tokens

\* every key the model can form
Keys == {hash_prompt(p, m) : p \in Prompts, m \in MaxTokens}

\* CachedResponse::new
CachedResponse_new(response, t) == [response |-> response, cached_at |-> t]

is_valid_at_ttl(cached, t) == t - cached.cached_at <= CACHE_TTL

\* CachedResponse::is_valid: cached_at.elapsed() < CACHE_TTL
is_valid(cached, t) == t - cached.cached_at < CACHE_TTL

\* usize::saturating_sub
saturating_sub(a, b) == IF a >= b THEN a - b ELSE 0

\* HashMap::insert and HashMap::remove
MapInsert(m, key, v) ==
    [k \in DOMAIN m \cup {key} |-> IF k = key THEN v ELSE m[k]]
MapRemove(m, key) == [k \in DOMAIN m \ {key} |-> m[k]]

\* keys_queue.iter().position(|&k| k == key), or 0 where the source has None
Position(q, key) ==
    IF \E i \in DOMAIN q : q[i] = key
    THEN CHOOSE i \in DOMAIN q : q[i] = key /\ \A j \in 1 .. i - 1 : q[j] # key
    ELSE 0

\* VecDeque::remove(pos)
QueueRemove(q, pos) == SubSeq(q, 1, pos - 1) \o SubSeq(q, pos + 1, Len(q))

\* HashMap::new
EmptyMap == [k \in {} |-> None]

\* ResponseCache::new, for the configured max_cache_size_mb
ResponseCache_new(max_memory_mb) ==
    [cache |-> EmptyMap,
     keys_queue |-> <<>>,
     max_size |-> MAX_CACHE_SIZE,
     estimated_memory_usage |-> 0,
     max_memory_usage |-> max_memory_mb * 1024 * 1024]

(***************************************************************************)
(* ResponseCache: the methods.  The clock value t is Instant::now().       *)
(***************************************************************************)
\* ResponseCache::get, the value it returns
get(c, prompt, max_tokens, t) ==
    LET key == hash_prompt(prompt, max_tokens)
    IN  IF key \in DOMAIN c.cache /\ is_valid(c.cache[key], t)
        THEN Some(c.cache[key].response)
        ELSE None

remove_entry_keeps_queue(c, key) ==
    IF key \in DOMAIN c.cache
    THEN [c EXCEPT !.cache = MapRemove(@, key),
                   !.estimated_memory_usage =
                       saturating_sub(@, c.cache[key].response.len + 64)]
    ELSE c

\* ResponseCache::remove_entry
remove_entry(c, key) ==
    LET freed_memory ==
            IF key \in DOMAIN c.cache THEN c.cache[key].response.len + 64 ELSE 0
        pos == Position(c.keys_queue, key)
    IN  [c EXCEPT !.cache = MapRemove(@, key),
                  !.estimated_memory_usage = saturating_sub(@, freed_memory),
                  !.keys_queue = IF pos # 0 THEN QueueRemove(@, pos) ELSE @]

\* if let Some(oldest_key) = self.keys_queue.pop_front() { self.remove_entry(oldest_key) }
evict_oldest(c) ==
    IF c.keys_queue = <<>> THEN c
    ELSE remove_entry([c EXCEPT !.keys_queue = Tail(@)], Head(c.keys_queue))

RECURSIVE enforce_memory_limit(_, _)
\* ResponseCache::enforce_memory_limit
enforce_memory_limit(c, needed_space) ==
    IF c.keys_queue # <<>>
       /\ c.estimated_memory_usage + needed_space > c.max_memory_usage
    THEN enforce_memory_limit(evict_oldest(c), needed_space)
    ELSE c

\* ResponseCache::size
size(c) == Cardinality(DOMAIN c.cache)

\* ResponseCache::memory_usage
memory_usage(c) == c.estimated_memory_usage

\* ResponseCache::max_memory_usage
max_memory_usage(c) == c.max_memory_usage

insert_keeps_present(c, prompt, max_tokens, response, t) ==
    LET key == hash_prompt(prompt, max_tokens)
        entry_size == response.len + prompt.len + 64
    IN  IF key \in DOMAIN c.cache THEN c
        ELSE LET c3 == IF size(c) >= c.max_size THEN evict_oldest(c) ELSE c
             IN  [c3 EXCEPT
                     !.cache = MapInsert(@, key, CachedResponse_new(response, t)),
                     !.keys_queue = Append(@, key),
                     !.estimated_memory_usage = @ + entry_size]

insert_over_ceiling(c, prompt, max_tokens, response, t) ==
    LET key == hash_prompt(prompt, max_tokens)
        c1 == IF key \in DOMAIN c.cache THEN remove_entry(c, key) ELSE c
        entry_size == response.len + prompt.len + 64
        c3 == IF size(c1) > c1.max_size THEN evict_oldest(c1) ELSE c1
    IN  [c3 EXCEPT !.cache = MapInsert(@, key, CachedResponse_new(response, t)),
                   !.keys_queue = Append(@, key),
                   !.estimated_memory_usage = @ + entry_size]

\* ResponseCache::insert
insert(c, prompt, max_tokens, response, t) ==
    LET key == hash_prompt(prompt, max_tokens)
        c1 == IF key \in DOMAIN c.cache THEN remove_entry(c, key) ELSE c
        response_size == response.len
        prompt_size == prompt.len
        entry_size == response_size + prompt_size + 64
        c2 == IF c1.estimated_memory_usage + entry_size > c1.max_memory_usage
              THEN enforce_memory_limit(c1, entry_size)
              ELSE c1
        c3 == IF size(c2) >= c2.max_size THEN evict_oldest(c2) ELSE c2
    IN  [c3 EXCEPT !.cache = MapInsert(@, key, CachedResponse_new(response, t)),
                   !.keys_queue = Append(@, key),
                   !.estimated_memory_usage = @ + entry_size]

\* the filter of clean: the keys whose entry is no longer valid
expired_keys(c, t) == {k \in DOMAIN c.cache : ~is_valid(c.cache[k], t)}

RECURSIVE remove_all(_, _)
\* for key in &expired_keys { self.remove_entry(*key) }
remove_all(c, keys) ==
    IF keys = {} THEN c
    ELSE LET key == CHOOSE k \in keys : TRUE
         IN  remove_all(remove_entry(c, key), keys \ {key})

clean_stops_after_one(c, t) ==
    LET expired == expired_keys(c, t)
    IN  [c |-> IF expired = {} THEN c
               ELSE remove_entry(c, CHOOSE k \in expired : TRUE),
         count |-> Cardinality(expired)]

\* ResponseCache::clean: the cache it leaves and the count it returns
clean(c, t) ==
    LET expired == expired_keys(c, t)
    IN  [c |-> remove_all(c, expired), count |-> Cardinality(expired)]

(***************************************************************************)
(* ProjectCache (utils/cache.rs): the cache of project metadata            *)
(***************************************************************************)
PROJECT_CACHE_TTL == 300

\* MAX_CACHE_SIZE of utils/cache.rs
PROJECT_MAX_CACHE_SIZE == MaxProjects

\* the project ids in use: one more than the cache may hold
ProjectIds == 1 .. MaxProjects + 1

\* ProjectCache::new
ProjectCache_new ==
    [projects |-> EmptyMap, directories |-> EmptyMap,
     dir_scan_times |-> EmptyMap, access_queue |-> <<>>,
     ttl |-> PROJECT_CACHE_TTL]

\* CachedProject::new
CachedProject_new(project, t) == [project |-> project, last_refreshed |-> t]

\* CachedProject::is_valid
CachedProject_is_valid(cached, t) == t - cached.last_refreshed < PROJECT_CACHE_TTL

\* the update of the access order: the id leaves its position and is pushed
\* at the end
touch(queue, project_id) ==
    LET pos == Position(queue, project_id)
    IN  Append(IF pos # 0 THEN QueueRemove(queue, pos) ELSE queue, project_id)

\* ProjectCache::get_project and get_project_mut: the cache after the call
\* and whether a valid project was found
get_project(c, project_id, t) ==
    IF /\ project_id \in DOMAIN c.projects
       /\ CachedProject_is_valid(c.projects[project_id], t)
    THEN [c |-> [c EXCEPT !.access_queue = touch(@, project_id)], found |-> TRUE]
    ELSE [c |-> c, found |-> FALSE]

\* ProjectCache::insert_project
insert_project(c, project, t) ==
    LET full == project \notin DOMAIN c.projects
                    /\ Cardinality(DOMAIN c.projects) >= PROJECT_MAX_CACHE_SIZE
        evicted == IF full /\ c.access_queue # <<>>
                   THEN [c EXCEPT
                            !.projects = MapRemove(@, Head(c.access_queue)),
                            !.access_queue = Tail(@)]
                   ELSE c
    IN  [evicted EXCEPT
            !.access_queue = touch(@, project),
            !.projects = MapInsert(@, project, CachedProject_new(project, t))]

\* ProjectCache::invalidate_project
invalidate_project(c, project_id) ==
    [c EXCEPT !.projects = MapRemove(@, project_id)]

\* ProjectCache::clean, the projects: the expired ones leave the map and the
\* access order
RECURSIVE clean_projects(_, _)
clean_projects(c, expired) ==
    IF expired = {} THEN c
    ELSE LET id == CHOOSE x \in expired : TRUE
             pos == Position(c.access_queue, id)
         IN  clean_projects(
                 [c EXCEPT !.projects = MapRemove(@, id),
                           !.access_queue =
                               IF pos # 0 THEN QueueRemove(@, pos) ELSE @],
                 expired \ {id})

\* ProjectCache::clean: the cache after the call and the number removed
ProjectCache_clean(c, t) ==
    LET expired_projects ==
            {id \in DOMAIN c.projects : ~CachedProject_is_valid(c.projects[id], t)}
        expired_dirs ==
            {dir \in DOMAIN c.dir_scan_times : t - c.dir_scan_times[dir] > 60}
        cleaned == clean_projects(c, expired_projects)
    IN  [c |-> [cleaned EXCEPT
                   !.dir_scan_times =
                       [dir \in DOMAIN @ \ expired_dirs |-> @[dir]],
                   !.directories =
                       [dir \in DOMAIN @ \ expired_dirs |-> @[dir]]],
         count |-> Cardinality(expired_projects) + Cardinality(expired_dirs)]

\* ProjectCache::size
ProjectCache_size(c) == Cardinality(DOMAIN c.projects)

(***************************************************************************)
(* State                                                                   *)
(***************************************************************************)
VARIABLES
    providers,      \* RateLimiter.providers: HashMap<Provider, ProviderRateLimit>
    now,            \* the clock, in seconds
    poisoned,       \* whether the RATE_LIMITER mutex is poisoned
    ret,            \* the last call of a public function and what it returned
    log,            \* history: per provider, the times of all record_request calls
    configured,     \* history: per provider, the last set_rate_limit value, or -1
    streak,         \* history: per provider, the backoff events since the last reset
    callers,        \* per caller, where it stands in the check-then-record protocol
    lock_owner,     \* holder of the limiter lock taken by a caller itself, or 0
    request_count,  \* the counter of test_concurrent_access
    cache,          \* the ResponseCache behind RESPONSE_CACHE
    reply,          \* the last call on the cache or the caching client: its
                    \* arguments, its result, for an insert whether the key was
                    \* stored before and which other keys left the cache, for
                    \* the client whether the cache answered, the task that
                    \* called and the error it got, for a stream the number
                    \* of items its consumer received, the text collected
                    \* and whether it saw the end
    inserted,       \* history: the number of inserts and, per key the cache holds,
                    \* the time, the response and the number of its last insert
    accessed,       \* history: the keys the cache holds that get has read
                    \* since their last insert
    origin,         \* history: per key, the request whose response was cached
    tasks,          \* per task, the call of CachedAiClient it is in: where it
                    \* stands, its locals, and what the caller has received
    wlock,          \* the task holding the write lock of RESPONSE_CACHE over
                    \* an await, or 0
    calls,          \* history: the calls started on the caching client, the
                    \* calls made to the wrapped client, and its last answer
    project_cache,  \* the ProjectCache behind PROJECT_CACHE
    recency,        \* history: the ids of the projects the cache holds, from
                    \* the least to the most recently inserted or read
    client_call     \* the generate call in progress on a provider client, or
                    \* the last one: the client, where the call stands, its
                    \* locals, what it returned, and as history its HTTP
                    \* attempts, the outcome of the last one, and the
                    \* record_request calls since

codeVars == <<providers, now, poisoned, ret>>
histVars == <<log, configured, streak>>
callerVars == <<callers, lock_owner, request_count>>
\* the response cache, the last call on it, and the history of its calls
cacheVars == <<cache, reply, inserted, accessed, origin>>
\* the tasks calling the caching client
taskVars == <<tasks, wlock, calls>>
\* what neither the rate limiter alone nor the cache alone touches
\* the project cache and the history of its use
projectVars == <<project_cache, recency>>
\* the provider clients
providerVars == <<client_call>>
extVars == <<taskVars, projectVars, providerVars>>
\* everything of the rate limiter and its callers but the clock
limiterVars == <<providers, poisoned, ret, log, configured, streak,
                 callers, lock_owner, request_count, client_call>>
vars == <<providers, now, poisoned, ret, log, configured, streak,
          callers, lock_owner, request_count,
          cache, reply, inserted, accessed, origin,
          tasks, wlock, calls, project_cache, recency,
          client_call>>

Callers == 1 .. NumCallers

NoCall ==
    [op |-> "none", id |-> "", allow |-> FALSE, delay |-> 0, rpm |-> 0,
     acquired |-> FALSE, panicked |-> FALSE]

Call(op, id) ==
    [op |-> op, id |-> id, allow |-> FALSE, delay |-> 0, rpm |-> 0,
     acquired |-> ~poisoned, panicked |-> FALSE]

NoStreak == [count |-> 0, pure |-> TRUE, prior |-> 0, reset |-> FALSE]

\* no call on the cache yet
NoReply == [op |-> "none", key |-> <<>>, response |-> None, result |-> None,
            count |-> 0, replaced |-> FALSE, evicted |-> {},
            request |-> None, hit |-> FALSE, error |-> FALSE,
            task |-> 0, failure |-> None, ended |-> FALSE, items |-> 0]

\* no generate call on a provider client yet
NoRequest ==
    [client |-> "none", pc |-> "idle", retry_count |-> 0, backoff_ms |-> 0,
     result |-> None, attempts |-> 0, outcome |-> "none", recorded |-> 0,
     started |-> 0]

\* the tasks that call the caching client
Tasks == 1 .. NumTasks

\* a task that has made no call
NoTask ==
    [pc |-> "idle", op |-> "none", prompt |-> None, max_tokens |-> None,
     stream |-> <<>>, collected |-> None, delivered |-> <<>>, missed |-> FALSE]

\* no call started, none made to the wrapped client
NoCalls == [started |-> 0, upstream |-> 0, last |-> None]

\* no insert yet
NoInserts == [count |-> 0, last |-> [k \in Keys |-> None]]

\* RateLimiter::new
RateLimiter_new ==
    [p \in Provider |->
        IF p = "Anthropic" THEN ProviderRateLimit_new(ANTHROPIC_RPM_LIMIT)
        ELSE IF p = "OpenAI" THEN ProviderRateLimit_new(OPENAI_RPM_LIMIT)
        ELSE ProviderRateLimit_new(DEFAULT_RPM_LIMIT)]

Init ==
    /\ providers = RateLimiter_new
    /\ now = 0
    /\ poisoned = FALSE
    /\ ret = NoCall
    /\ log = [p \in Provider |-> <<>>]
    /\ configured = [p \in Provider |-> -1]
    /\ streak = [p \in Provider |-> NoStreak]
    /\ callers = [c \in Callers |-> [pc |-> "idle", id |-> ""]]
    /\ lock_owner = 0
    /\ request_count = 0
    /\ cache = ResponseCache_new(DefaultCacheMb)
    /\ reply = NoReply
    /\ inserted = NoInserts
    /\ accessed = {}
    /\ origin = [k \in Keys |-> None]
    /\ tasks = [t \in Tasks |-> NoTask]
    /\ wlock = 0
    /\ calls = NoCalls
    /\ project_cache = ProjectCache_new
    /\ recency = <<>>
    /\ client_call = NoRequest


(***************************************************************************)
(* RateLimiter: the methods on the provider map                            *)
(***************************************************************************)
\* HashMap::entry(provider).or_insert_with(|| ProviderRateLimit::new(rpm))
entry_or_insert(provs, provider, rpm) ==
    IF provider \in DOMAIN provs THEN provs
    ELSE [q \in DOMAIN provs \cup {provider} |->
            IF q = provider THEN ProviderRateLimit_new(rpm) ELSE provs[q]]

\* usage_percent >= WARN_THRESHOLD_PERCENT in f32: 0/0 is NaN and compares
\* false, n/0 is +inf and compares true
Warns(current_rpm, limit) ==
    IF limit = 0 THEN current_rpm > 0
    ELSE current_rpm * WarnDen >= limit * WarnNum

\* RateLimiter::check_rate_limit: the map it leaves and the value it returns
check_rate_limit(provs, provider, t) ==
    LET with == entry_or_insert(provs, provider, DEFAULT_RPM_LIMIT)
        purged == cleanup_old_requests(with[provider], t)
    IN  [provs |-> [with EXCEPT ![provider] = purged],
         result |-> can_make_request(purged, t)]

\* RateLimiter::record_success
RateLimiter_record_success(provs, provider) ==
    IF provider \in DOMAIN provs
    THEN [provs EXCEPT ![provider] = record_success(@)]
    ELSE provs

\* RateLimiter::record_failure: the map it leaves and the delay it returns
RateLimiter_record_failure(provs, provider) ==
    IF provider \in DOMAIN provs
    THEN [provs |-> [provs EXCEPT ![provider] = record_failure(@)],
          delay |-> record_failure(provs[provider]).last_backoff_delay_ms]
    ELSE [provs |-> provs, delay |-> INITIAL_RETRY_DELAY_MS]

\* RateLimiter::record_rate_limit
RateLimiter_record_rate_limit(provs, provider) ==
    LET rpm == IF provider = "Anthropic" THEN 10 ELSE DEFAULT_RPM_LIMIT
        with == entry_or_insert(provs, provider, rpm)
    IN  [with EXCEPT ![provider] = record_rate_limit(@)]

(***************************************************************************)
(* The public functions.  Each locks RATE_LIMITER for the whole call; on a *)
(* poisoned mutex lock() returns Err.  They leave the clock alone.         *)
(***************************************************************************)
\* pub fn can_make_request
CanMakeRequest(id) ==
    LET provider == From(id)
        out == check_rate_limit(providers, provider, now)
    IN  /\ providers' = IF poisoned THEN providers ELSE out.provs
        /\ ret' = [Call("can_make_request", id) EXCEPT
                      !.allow = IF poisoned THEN TRUE ELSE out.result]
        /\ UNCHANGED <<now, poisoned>>

\* pub fn can_make_request when the println! of the warning branch of
\* check_rate_limit panics (stdout is closed): the thread unwinds holding
\* the guard and the mutex is poisoned; get_current_rpm has already purged
CanMakeRequestPanics(id) ==
    LET provider == From(id)
        with == entry_or_insert(providers, provider, DEFAULT_RPM_LIMIT)
        purged == cleanup_old_requests(with[provider], now)
    IN  /\ ~poisoned
        /\ Warns(get_current_rpm(with[provider], now), purged.rpm_limit)
        /\ providers' = [with EXCEPT ![provider] = purged]
        /\ poisoned' = TRUE
        /\ ret' = [Call("can_make_request", id) EXCEPT !.panicked = TRUE]
        /\ UNCHANGED now

\* pub fn record_request
RecordRequest(id) ==
    LET provider == From(id)
    IN  /\ providers' =
              IF ~poisoned /\ provider \in DOMAIN providers
              THEN [providers EXCEPT ![provider].requests = Append(@, now)]
              ELSE providers
        /\ ret' = Call("record_request", id)
        /\ UNCHANGED <<now, poisoned>>

\* pub fn record_success
RecordSuccess(id) ==
    /\ providers' = IF poisoned THEN providers
                    ELSE RateLimiter_record_success(providers, From(id))
    /\ ret' = Call("record_success", id)
    /\ UNCHANGED <<now, poisoned>>

\* pub fn record_failure
RecordFailure(id) ==
    LET out == RateLimiter_record_failure(providers, From(id))
    IN  /\ providers' = IF poisoned THEN providers ELSE out.provs
        /\ ret' = [Call("record_failure", id) EXCEPT
                      !.delay = IF poisoned THEN INITIAL_RETRY_DELAY_MS
                                ELSE out.delay]
        /\ UNCHANGED <<now, poisoned>>

\* pub fn set_rate_limit
SetRateLimit(id, rpm) ==
    LET provider == From(id)
    IN  /\ providers' =
              IF ~poisoned /\ provider \in DOMAIN providers
              THEN [providers EXCEPT ![provider].rpm_limit = rpm]
              ELSE providers
        /\ ret' = [Call("set_rate_limit", id) EXCEPT !.rpm = rpm]
        /\ UNCHANGED <<now, poisoned>>

\* pub fn record_rate_limit: RATE_LIMITER.lock().unwrap() panics on a
\* poisoned mutex
RecordRateLimit(id) ==
    /\ providers' = IF poisoned THEN providers
                    ELSE RateLimiter_record_rate_limit(providers, From(id))
    /\ ret' = [Call("record_rate_limit", id) EXCEPT !.panicked = poisoned]
    /\ UNCHANGED <<now, poisoned>>

\* the clock moves on by half a window; no call is returning
Tick ==
    /\ now' = now + (WINDOW_SECS \div 2)
    /\ ret' = NoCall
    /\ UNCHANGED <<providers, poisoned>>


(***************************************************************************)
(* History variables.  They record the calls made, not what the code did   *)
(* with them; the specifications below add them to the calls they watch.   *)
(***************************************************************************)
\* a record_request call for `id` was made at the current time
LogRequest(id) == log' = [log EXCEPT ![From(id)] = Append(@, now)]

\* a set_rate_limit(id, rpm) call was made
LogLimit(id, rpm) == configured' = [configured EXCEPT ![From(id)] = rpm]

\* a record_failure (pure) or record_rate_limit (not pure) call was made
LogEvent(id, isFailure) ==
    streak' = [streak EXCEPT ![From(id)] =
                  [@ EXCEPT !.count = @ + 1, !.pure = @ /\ isFailure]]

\* a record_success call was made
LogReset(id) ==
    streak' = [streak EXCEPT ![From(id)] =
                  [count |-> 0, pure |-> TRUE, prior |-> @.count, reset |-> TRUE]]

RECURSIVE SumLen(_, _)
SumLen(f, S) ==
    IF S = {} THEN 0
    ELSE LET x == CHOOSE y \in S : TRUE IN Len(f[x]) + SumLen(f, S \ {x})

TotalLogged == SumLen(log, Provider)

(***************************************************************************)
(* SpecWindow: the sliding window.  Any caller may check, record,          *)
(* reconfigure; the clock moves.                                           *)
(***************************************************************************)
WindowCheck ==
    \E id \in OneName :
        CanMakeRequest(id) /\ UNCHANGED <<histVars, callerVars, cacheVars, extVars>>

WindowRecord ==
    \E id \in OneName :
        /\ TotalLogged < MaxRequests
        /\ RecordRequest(id)
        /\ LogRequest(id)
        /\ UNCHANGED <<configured, streak, callerVars, cacheVars, extVars>>

WindowSetLimit ==
    \E id \in OneName, rpm \in 0 .. MaxRpm :
        /\ SetRateLimit(id, rpm)
        /\ LogLimit(id, rpm)
        /\ UNCHANGED <<log, streak, callerVars, cacheVars, extVars>>

WindowTick ==
    /\ now < MaxTicks * (WINDOW_SECS \div 2)
    /\ Tick
    /\ UNCHANGED <<histVars, callerVars, cacheVars, extVars>>

NextWindow == WindowCheck \/ WindowRecord \/ WindowSetLimit \/ WindowTick

SpecWindow == Init /\ [][NextWindow]_vars


(***************************************************************************)
(* SpecConc: concurrent callers of the public functions, each following    *)
(* the documented protocol: can_make_request, and record_request only when *)
(* it returned true.  The two calls take the lock separately.  The limits  *)
(* are configured before the first request.                                *)
(***************************************************************************)
Startup ==
    /\ now = 0
    /\ TotalLogged = 0
    /\ lock_owner = 0
    /\ \A c \in Callers : callers[c].pc = "idle"

\* the callers are the Anthropic and the OpenAI client
ConcNames == {"anthropic", "openai"}

ConcConfigure ==
    \E id \in ConcNames, rpm \in 0 .. MaxLimit :
        /\ Startup
        /\ SetRateLimit(id, rpm)
        /\ LogLimit(id, rpm)
        /\ UNCHANGED <<log, streak, callerVars, cacheVars, extVars>>

ConcCheck ==
    \E c \in Callers, id \in ConcNames :
        /\ callers[c].pc = "idle"
        /\ CanMakeRequest(id)
        /\ callers' = [callers EXCEPT ![c] =
                          IF ret'.allow THEN [pc |-> "admitted", id |-> id]
                          ELSE [pc |-> "idle", id |-> ""]]
        /\ UNCHANGED <<histVars, lock_owner, request_count, cacheVars, extVars>>

ConcRecord ==
    \E c \in Callers :
        /\ callers[c].pc = "admitted"
        /\ TotalLogged < MaxRequests
        /\ RecordRequest(callers[c].id)
        /\ LogRequest(callers[c].id)
        /\ callers' = [callers EXCEPT ![c] = [pc |-> "idle", id |-> ""]]
        /\ UNCHANGED <<configured, streak, lock_owner, request_count, cacheVars, extVars>>

ConcTick ==
    /\ now < MaxTicks * (WINDOW_SECS \div 2)
    /\ Tick
    /\ UNCHANGED <<histVars, callerVars, cacheVars, extVars>>

NextConc == ConcConfigure \/ ConcCheck \/ ConcRecord \/ ConcTick

SpecConc == Init /\ [][NextConc]_vars

(***************************************************************************)
(* SpecLocked: the callers of test_concurrent_access.  Each takes the      *)
(* limiter lock itself and keeps it over check_rate_limit and              *)
(* record_request on Provider::Custom; the guard is dropped at the end of  *)
(* the loop body.                                                          *)
(***************************************************************************)
LockAlwaysAvailable == TRUE

\* Mutex::lock returns once no other thread holds the guard
LockAvailable == lock_owner = 0

\* limiter.lock().unwrap().providers.get_mut(&provider).unwrap().rpm_limit = ..
LockedSetup ==
    \E rpm \in 0 .. MaxLimit :
        /\ Startup
        /\ providers' = [providers EXCEPT !["Custom"].rpm_limit = rpm]
        /\ configured' = [configured EXCEPT !["Custom"] = rpm]
        /\ UNCHANGED <<now, poisoned, ret, log, streak, callerVars, cacheVars, extVars>>

\* let mut limiter = limiter.lock().unwrap();
LockedAcquire ==
    \E c \in Callers :
        /\ callers[c].pc = "idle"
        /\ LockAvailable
        /\ lock_owner' = c
        /\ callers' = [callers EXCEPT ![c] = [pc |-> "locked", id |-> "custom"]]
        /\ UNCHANGED <<codeVars, histVars, request_count, cacheVars, extVars>>

\* if limiter.check_rate_limit(provider) { .. }
LockedCheck ==
    \E c \in Callers :
        LET out == check_rate_limit(providers, "Custom", now)
        IN  /\ callers[c].pc = "locked"
            /\ providers' = out.provs
            /\ ret' = [Call("check_rate_limit", "custom") EXCEPT
                          !.allow = out.result]
            /\ callers' = [callers EXCEPT ![c] =
                              IF out.result THEN [pc |-> "admitted", id |-> "custom"]
                              ELSE [pc |-> "idle", id |-> ""]]
            /\ lock_owner' = IF out.result THEN lock_owner ELSE 0
            /\ UNCHANGED <<now, poisoned, histVars, request_count, cacheVars, extVars>>

\* ..record_request(&clock); request_count.fetch_add(1, ..); and the guard drops
LockedRecord ==
    \E c \in Callers :
        /\ callers[c].pc = "admitted"
        /\ TotalLogged < MaxRequests
        /\ providers' = [providers EXCEPT !["Custom"] = record_request(@, now)]
        /\ ret' = Call("record_request", "custom")
        /\ log' = [log EXCEPT !["Custom"] = Append(@, now)]
        /\ request_count' = request_count + 1
        /\ lock_owner' = 0
        /\ callers' = [callers EXCEPT ![c] = [pc |-> "idle", id |-> ""]]
        /\ UNCHANGED <<now, poisoned, configured, streak, cacheVars, extVars>>

LockedTick ==
    /\ now < MaxTicks * (WINDOW_SECS \div 2)
    /\ Tick
    /\ UNCHANGED <<histVars, callerVars, cacheVars, extVars>>

NextLocked ==
    LockedSetup \/ LockedAcquire \/ LockedCheck \/ LockedRecord \/ LockedTick

SpecLocked == Init /\ [][NextLocked]_vars


(***************************************************************************)
(* SpecBackoff: the backoff state under any sequence of record_failure,    *)
(* record_rate_limit and record_success calls.                             *)
(***************************************************************************)
RECURSIVE Remembered(_)
\* the backoff events the history still holds, all providers together
Remembered(S) ==
    IF S = {} THEN 0
    ELSE LET x == CHOOSE y \in S : TRUE
         IN  streak[x].count + streak[x].prior + Remembered(S \ {x})

BackoffFailure ==
    \E id \in OneName :
        /\ Remembered(Provider) < MaxFailures
        /\ RecordFailure(id)
        /\ LogEvent(id, TRUE)
        /\ UNCHANGED <<log, configured, callerVars, cacheVars, extVars>>

BackoffRateLimit ==
    \E id \in OneName :
        /\ Remembered(Provider) < MaxFailures
        /\ RecordRateLimit(id)
        /\ LogEvent(id, FALSE)
        /\ UNCHANGED <<log, configured, callerVars, cacheVars, extVars>>

BackoffSuccess ==
    \E id \in OneName :
        /\ RecordSuccess(id)
        /\ LogReset(id)
        /\ UNCHANGED <<log, configured, callerVars, cacheVars, extVars>>

NextBackoff == BackoffFailure \/ BackoffRateLimit \/ BackoffSuccess

SpecBackoff == Init /\ [][NextBackoff]_vars

(***************************************************************************)
(* Spec: every public function, called with any of the provider strings,   *)
(* in any order, while the clock moves; stdout may fail under the warning  *)
(* of check_rate_limit.                                                    *)
(***************************************************************************)
RECURSIVE Held(_, _)
\* the timestamps (w = TRUE) or the consecutive failures the map holds
Held(S, w) ==
    IF S = {} THEN 0
    ELSE LET x == CHOOSE y \in S : TRUE
         IN  (IF w THEN Len(providers[x].requests)
                   ELSE providers[x].consecutive_failures) + Held(S \ {x}, w)

\* the two Anthropic clients and the OpenAI client
SomeNames == {"anthropic", "anthropic_enhanced", "openai"}

DoCheck ==
    \E id \in SomeNames :
        CanMakeRequest(id) /\ UNCHANGED <<histVars, callerVars, cacheVars, extVars>>

DoCheckPanics ==
    \E id \in SomeNames :
        CanMakeRequestPanics(id) /\ UNCHANGED <<histVars, callerVars, cacheVars, extVars>>

DoRecord ==
    \E id \in SomeNames :
        /\ poisoned \/ Held(Provider, TRUE) < SmallRequests
        /\ RecordRequest(id)
        /\ UNCHANGED <<histVars, callerVars, cacheVars, extVars>>

DoSuccess ==
    \E id \in SomeNames :
        RecordSuccess(id) /\ UNCHANGED <<histVars, callerVars, cacheVars, extVars>>

DoFailure ==
    \E id \in SomeNames :
        /\ poisoned \/ Held(Provider, FALSE) < SmallFailures
        /\ RecordFailure(id)
        /\ UNCHANGED <<histVars, callerVars, cacheVars, extVars>>

DoRateLimit ==
    \E id \in SomeNames :
        /\ poisoned \/ Held(Provider, FALSE) < SmallFailures
        /\ RecordRateLimit(id)
        /\ UNCHANGED <<histVars, callerVars, cacheVars, extVars>>

\* the limit is set to nothing, or to all the timestamps the map may hold
DoSetLimit ==
    \E id \in SomeNames, rpm \in {0, SmallRequests} :
        SetRateLimit(id, rpm) /\ UNCHANGED <<histVars, callerVars, cacheVars, extVars>>

DoTick ==
    /\ now < SmallTicks * (WINDOW_SECS \div 2)
    /\ Tick
    /\ UNCHANGED <<histVars, callerVars, cacheVars, extVars>>

Next ==
    \/ DoCheck \/ DoCheckPanics \/ DoRecord \/ DoSuccess
    \/ DoFailure \/ DoRateLimit \/ DoSetLimit \/ DoTick

Spec == Init /\ [][Next]_vars

(***************************************************************************)
(* The calls on a ResponseCache.  Each changes the cache and the reply and *)
(* notes the insert in the history; the clock is left alone.               *)
(***************************************************************************)
\* the history is kept for the keys the cache still holds
Kept(last, c) == [k \in Keys |-> IF k \in DOMAIN c.cache THEN last[k] ELSE None]

\* cache.insert(prompt, max_tokens, response)
Insert(prompt, max_tokens, response) ==
    LET key == hash_prompt(prompt, max_tokens)
    IN  /\ cache' = insert(cache, prompt, max_tokens, response, now)
        /\ reply' = [NoReply EXCEPT
                        !.op = "insert", !.key = key, !.response = Some(response),
                        !.replaced = key \in DOMAIN cache.cache,
                        !.evicted = (DOMAIN cache.cache \ {key})
                                        \ DOMAIN cache'.cache]
        /\ inserted' =
               [count |-> inserted.count + 1,
                last |-> Kept([inserted.last EXCEPT ![key] =
                                  Some([at |-> now, response |-> response,
                                        seq |-> inserted.count + 1])],
                              cache')]

Get_removes_expired(prompt, max_tokens) ==
    LET key == hash_prompt(prompt, max_tokens)
        stale == key \in DOMAIN cache.cache /\ ~is_valid(cache.cache[key], now)
    IN  /\ cache' = IF stale THEN remove_entry(cache, key) ELSE cache
        /\ reply' = [NoReply EXCEPT
                        !.op = "get", !.key = key,
                        !.result = get(cache, prompt, max_tokens, now)]
        /\ inserted' = [inserted EXCEPT !.last = Kept(@, cache')]

\* cache.get(prompt, max_tokens): it takes &self, the cache is only read
Get(prompt, max_tokens) ==
    LET key == hash_prompt(prompt, max_tokens)
    IN  /\ cache' = cache
        /\ reply' = [NoReply EXCEPT
                        !.op = "get", !.key = key,
                        !.result = get(cache, prompt, max_tokens, now)]
        /\ inserted' = inserted

\* cache.clean()
Clean ==
    /\ cache' = clean(cache, now).c
    /\ reply' = [NoReply EXCEPT !.op = "clean", !.count = clean(cache, now).count]
    /\ inserted' = [inserted EXCEPT !.last = Kept(@, cache')]

(***************************************************************************)
(* SpecCache: one ResponseCache with the default byte budget under any     *)
(* sequence of insert, get and clean calls while the clock moves.          *)
(***************************************************************************)
CacheInsert ==
    \E prompt \in Prompts, max_tokens \in MaxTokens, response \in Responses :
        /\ inserted.count < MaxInserts
        /\ Insert(prompt, max_tokens, response)
        /\ UNCHANGED <<now, limiterVars, extVars, accessed, origin>>

CacheGet ==
    \E prompt \in Prompts, max_tokens \in MaxTokens :
        /\ Get(prompt, max_tokens)
        /\ UNCHANGED <<now, limiterVars, extVars, accessed, origin>>

CacheClean == Clean /\ UNCHANGED <<now, limiterVars, extVars, accessed, origin>>

\* the clock moves on by half a TTL; no call is returning
CacheTick ==
    /\ now < CacheTicks * (CACHE_TTL \div 2)
    /\ now' = now + (CACHE_TTL \div 2)
    /\ reply' = NoReply
    /\ UNCHANGED <<cache, limiterVars, extVars, inserted, accessed, origin>>

NextCache == CacheInsert \/ CacheGet \/ CacheClean \/ CacheTick

SpecCache == Init /\ [][NextCache]_vars

(***************************************************************************)
(* SpecEvict: evictions.  The cache is built with the configured byte      *)
(* budget before its first use; then any sequence of insert and get calls, *)
(* with the keys read by get noted in the history.                         *)
(***************************************************************************)
\* ResponseCache::new reads max_cache_size_mb from the configuration
EvictNew ==
    \E mb \in CacheMbs :
        /\ inserted.count = 0
        /\ cache' = ResponseCache_new(mb)
        /\ reply' = [NoReply EXCEPT !.op = "new"]
        /\ UNCHANGED <<now, limiterVars, extVars, inserted, accessed, origin>>

EvictInsert ==
    \E prompt \in Prompts, max_tokens \in MaxTokens, response \in Responses :
        /\ inserted.count < MaxInserts
        /\ Insert(prompt, max_tokens, response)
        /\ accessed' = (accessed \ {hash_prompt(prompt, max_tokens)})
                           \cap DOMAIN cache'.cache
        /\ UNCHANGED <<now, limiterVars, extVars, origin>>

EvictGet ==
    \E prompt \in Prompts, max_tokens \in MaxTokens :
        /\ Get(prompt, max_tokens)
        /\ accessed' = IF hash_prompt(prompt, max_tokens) \in DOMAIN cache.cache
                       THEN accessed \cup {hash_prompt(prompt, max_tokens)}
                       ELSE accessed
        /\ UNCHANGED <<now, limiterVars, extVars, origin>>

NextEvict == EvictNew \/ EvictInsert \/ EvictGet

SpecEvict == Init /\ [][NextEvict]_vars

(***************************************************************************)
(* SpecClient: CachedAiClient, the caching decorator in front of a wrapped *)
(* client.  generate_with_options holds the write lock of RESPONSE_CACHE   *)
(* from the lookup to the insert, so it is one step.  The wrapped client   *)
(* answers a request with any response, or with an error.                  *)
(***************************************************************************)
\* RequestOptions::default
DefaultOptions ==
    [max_tokens |-> None, temperature |-> None, top_p |-> None,
     timeout |-> None, functions |-> None]

\* RequestOptions: the default, and the default with one field given
Options ==
    {DefaultOptions,
     [DefaultOptions EXCEPT !.max_tokens = Some(100)],
     [DefaultOptions EXCEPT !.temperature = Some(1)],
     [DefaultOptions EXCEPT !.top_p = Some(1)],
     [DefaultOptions EXCEPT !.functions = Some(<<"f">>)]}

\* a call of generate_with_options(prompt, options)
Requests == [prompt : Prompts, options : Options]

\* the key generate_with_options looks up and inserts under
CacheKey(request) == hash_prompt(request.prompt, request.options.max_tokens)

\* what the wrapped client may return: Err, or Ok(response)
Outcomes == {None} \cup {Some(r) : r \in Responses}

\* CachedAiClient::generate_with_options; cleanup is rand::random::<u8>() < 3
GenerateWithOptions(request, outcome, cleanup) ==
    LET prompt == request.prompt
        max_tokens == request.options.max_tokens
        key == CacheKey(request)
        cached_response == get(cache, prompt, max_tokens, now)
        stored == insert(cache, prompt, max_tokens, outcome[1], now)
        call == [NoReply EXCEPT !.op = "generate_with_options", !.key = key,
                                !.request = Some(request)]
    IN  IF cached_response # None
        THEN /\ reply' = [call EXCEPT !.hit = TRUE, !.result = cached_response]
             /\ UNCHANGED <<cache, inserted, origin>>
        ELSE IF outcome = None
        THEN /\ reply' = [call EXCEPT !.error = TRUE]
             /\ UNCHANGED <<cache, inserted, origin>>
        ELSE /\ cache' = IF cleanup THEN clean(stored, now).c ELSE stored
             /\ reply' = [call EXCEPT !.response = outcome, !.result = outcome]
             /\ inserted' =
                    [count |-> inserted.count + 1,
                     last |-> Kept([inserted.last EXCEPT ![key] =
                                       Some([at |-> now, response |-> outcome[1],
                                             seq |-> inserted.count + 1])],
                                   cache')]
             /\ origin' = Kept([origin EXCEPT ![key] = Some(request)], cache')

ClientGenerateWithOptions ==
    \E request \in Requests, outcome \in Outcomes, cleanup \in BOOLEAN :
        /\ inserted.count < MaxCalls
        /\ GenerateWithOptions(request, outcome, cleanup)
        /\ UNCHANGED <<now, limiterVars, extVars, accessed>>

ClientTick ==
    /\ now < CacheTicks * (CACHE_TTL \div 2)
    /\ now' = now + (CACHE_TTL \div 2)
    /\ reply' = NoReply
    /\ UNCHANGED <<cache, limiterVars, extVars, inserted, accessed, origin>>

NextClient == ClientGenerateWithOptions \/ ClientTick

SpecClient == Init /\ [][NextClient]_vars

(***************************************************************************)
(* SpecTasks: tasks calling generate and generate_with_options of one      *)
(* CachedAiClient at the same time.  generate looks the prompt up under    *)
(* the read lock, lets the lock go, awaits the wrapped client and then     *)
(* inserts under the write lock; generate_with_options keeps the write     *)
(* lock from its lookup to its insert.  A lock guard that is not held over *)
(* an await is taken and dropped within one step.                          *)
(***************************************************************************)
\* Result::Ok and Result::Err
Ok(x) == <<"Ok", x>>
Err(e) == <<"Err", e>>

\* the errors of the wrapped client
Errors == {"Api", "Network"}

\* what a call of the wrapped client returns
Results == {Err(e) : e \in Errors} \cup {Ok(r) : r \in Responses}

\* a task is between two calls of the caching client
Ready(t) == tasks[t].pc = "idle"

\* the locals of a call that has gone to the wrapped client
StartCall(op, pc, prompt, max_tokens) ==
    [NoTask EXCEPT !.pc = pc, !.op = op, !.prompt = Some(prompt),
                   !.max_tokens = max_tokens]

\* what a call of task t returns to its caller
Return(t, op, prompt, max_tokens, hit, result) ==
    [NoReply EXCEPT
        !.task = t, !.op = op, !.key = hash_prompt(prompt, max_tokens),
        !.hit = hit,
        !.result = IF result[1] = "Ok" THEN Some(result[2]) ELSE None,
        !.failure = IF result[1] = "Err" THEN Some(result[2]) ELSE None,
        !.error = result[1] = "Err"]

\* cache.insert(prompt, max_tokens, response) by a task, and cache.clean()
\* after it if cleanup
TaskInsert(prompt, max_tokens, response, cleanup) ==
    LET key == hash_prompt(prompt, max_tokens)
        stored == insert(cache, prompt, max_tokens, response, now)
    IN  /\ cache' = IF cleanup THEN clean(stored, now).c ELSE stored
        /\ inserted' =
               [count |-> inserted.count + 1,
                last |-> Kept([inserted.last EXCEPT ![key] =
                                  Some([at |-> now, response |-> response,
                                        seq |-> inserted.count + 1])],
                              cache')]

\* generate, to the call of the wrapped client: RESPONSE_CACHE.read().await,
\* the lookup, and the return of the cached response
Generate_skips_lookup(t, prompt) ==
    /\ Ready(t)
    /\ wlock = 0
    /\ tasks' = [tasks EXCEPT ![t] = StartCall("generate", "upstream", prompt, None)]
    /\ calls' = [calls EXCEPT !.started = @ + 1, !.upstream = @ + 1]
    /\ UNCHANGED <<cache, inserted, wlock, reply>>

Generate(t, prompt) ==
    LET cached_response == get(cache, prompt, None, now)
    IN  /\ Ready(t)
        /\ wlock = 0
        /\ IF cached_response # None
           THEN /\ reply' = Return(t, "generate", prompt, None, TRUE,
                                   Ok(cached_response[1]))
                /\ calls' = [calls EXCEPT !.started = @ + 1]
                /\ UNCHANGED tasks
           ELSE /\ tasks' = [tasks EXCEPT ![t] =
                                StartCall("generate", "upstream", prompt, None)]
                /\ calls' = [calls EXCEPT !.started = @ + 1, !.upstream = @ + 1]
                /\ UNCHANGED reply
        /\ UNCHANGED <<cache, inserted, wlock>>

\* generate, from the answer of the wrapped client: the ? on its result,
\* RESPONSE_CACHE.write().await, the insert and the cleanup
GenerateUpstream_caches_error(t, outcome, cleanup) ==
    /\ tasks[t].pc = "upstream"
    /\ tasks[t].op = "generate"
    /\ wlock = 0
    /\ tasks' = [tasks EXCEPT ![t] = NoTask]
    /\ reply' = Return(t, "generate", tasks[t].prompt[1], None, FALSE, outcome)
    /\ TaskInsert(tasks[t].prompt[1], None,
                  IF outcome[1] = "Ok" THEN outcome[2] ELSE String("", 0),
                  cleanup)
    /\ calls' = [calls EXCEPT !.last = Some(outcome)]
    /\ UNCHANGED wlock

GenerateUpstream(t, outcome, cleanup) ==
    /\ tasks[t].pc = "upstream"
    /\ tasks[t].op = "generate"
    /\ tasks' = [tasks EXCEPT ![t] = NoTask]
    /\ reply' = Return(t, "generate", tasks[t].prompt[1], None, FALSE, outcome)
    /\ IF outcome[1] = "Err"
       THEN UNCHANGED <<cache, inserted>>
       ELSE /\ wlock = 0
            /\ TaskInsert(tasks[t].prompt[1], None, outcome[2], cleanup)
    /\ calls' = [calls EXCEPT !.last = Some(outcome)]
    /\ UNCHANGED wlock

\* generate_with_options, to the call of the wrapped client:
\* RESPONSE_CACHE.write().await, the lookup, and the return of the cached
\* response, which drops the guard
GenerateWithOptionsLookup(t, prompt, options) ==
    LET max_tokens == options.max_tokens
        cached_response == get(cache, prompt, max_tokens, now)
    IN  /\ Ready(t)
        /\ wlock = 0
        /\ IF cached_response # None
           THEN /\ reply' = Return(t, "generate_with_options", prompt,
                                   max_tokens, TRUE, Ok(cached_response[1]))
                /\ calls' = [calls EXCEPT !.started = @ + 1]
                /\ wlock' = 0
                /\ UNCHANGED tasks
           ELSE /\ tasks' = [tasks EXCEPT ![t] =
                                StartCall("generate_with_options", "locked",
                                          prompt, max_tokens)]
                /\ calls' = [calls EXCEPT !.started = @ + 1, !.upstream = @ + 1]
                /\ wlock' = t
                /\ UNCHANGED reply
        /\ UNCHANGED <<cache, inserted>>

\* generate_with_options, from the answer of the wrapped client: the ? on
\* its result, the insert and the cleanup under the guard it holds
GenerateWithOptionsUpstream(t, outcome, cleanup) ==
    /\ tasks[t].pc = "locked"
    /\ wlock = t
    /\ tasks' = [tasks EXCEPT ![t] = NoTask]
    /\ reply' = Return(t, "generate_with_options", tasks[t].prompt[1],
                       tasks[t].max_tokens, FALSE, outcome)
    /\ IF outcome[1] = "Err"
       THEN UNCHANGED <<cache, inserted>>
       ELSE TaskInsert(tasks[t].prompt[1], tasks[t].max_tokens, outcome[2],
                       cleanup)
    /\ wlock' = 0
    /\ calls' = [calls EXCEPT !.last = Some(outcome)]

\* the options of the calls: the default, and max_tokens given
TaskOptions == {DefaultOptions, [DefaultOptions EXCEPT !.max_tokens = Some(100)]}

TaskGenerate ==
    \E t \in Tasks, prompt \in Prompts :
        /\ calls.started < MaxCalls
        /\ Generate(t, prompt)
        /\ UNCHANGED <<now, limiterVars, projectVars, accessed, origin>>

TaskGenerateUpstream ==
    \E t \in Tasks, outcome \in Results, cleanup \in BOOLEAN :
        /\ GenerateUpstream(t, outcome, cleanup)
        /\ UNCHANGED <<now, limiterVars, projectVars, accessed, origin>>

TaskOptionsLookup ==
    \E t \in Tasks, prompt \in Prompts, options \in TaskOptions :
        /\ calls.started < MaxCalls
        /\ GenerateWithOptionsLookup(t, prompt, options)
        /\ UNCHANGED <<now, limiterVars, projectVars, accessed, origin>>

TaskOptionsUpstream ==
    \E t \in Tasks, outcome \in Results, cleanup \in BOOLEAN :
        /\ GenerateWithOptionsUpstream(t, outcome, cleanup)
        /\ UNCHANGED <<now, limiterVars, projectVars, accessed, origin>>

\* the clock moves on by one TTL
TaskTick ==
    /\ now < TaskTicks * CACHE_TTL
    /\ now' = now + CACHE_TTL
    /\ reply' = NoReply
    /\ UNCHANGED <<limiterVars, projectVars, cache, inserted, accessed, origin,
                   taskVars>>

NextTasks ==
    \/ TaskGenerate
    \/ TaskGenerateUpstream
    \/ TaskOptionsLookup
    \/ TaskOptionsUpstream
    \/ TaskTick

SpecTasks == Init /\ [][NextTasks]_vars

(***************************************************************************)
(* SpecStream: tasks calling generate_streaming and                        *)
(* generate_streaming_with_options while others call                       *)
(* generate_with_options, which holds the write lock while it awaits the   *)
(* wrapped client.  The consumer of a stream polls it item by item and may *)
(* drop it at any point.                                                   *)
(***************************************************************************)
\* the items the stream of the wrapped client may yield
Items == {Ok(String("x", 1)), Err("Api")}

\* what stream.next().await on the stream of the wrapped client returns: an
\* item, or None at its end
Nexts == {None} \cup {Some(item) : item \in Items}

\* what inner.generate_streaming(prompt).await returns: an error, or a stream
Openings == {Err("Api"), Ok("stream")}

\* the items the consumers of the first n tasks hold of streams in progress
RECURSIVE HeldItems(_)
HeldItems(n) == IF n = 0 THEN 0 ELSE Len(tasks[n].delivered) + HeldItems(n - 1)

\* String::push_str
push_str(collected, chunk) ==
    String(collected.text \o chunk.text, collected.len + chunk.len)

\* RESPONSE_CACHE.try_write(): Err while the lock is held
try_write_ignores_holder == TRUE

try_write == wlock = 0

\* generate_streaming and generate_streaming_with_options to the stream they
\* return: the lookup under the read lock, then stream::once with the cached
\* response or the call of the wrapped client and the unfold around its
\* stream
Streaming(t, op, prompt, max_tokens, opened) ==
    LET cached_response == get(cache, prompt, max_tokens, now)
        call == StartCall(op, "streaming", prompt, max_tokens)
    IN  /\ Ready(t)
        /\ wlock = 0
        /\ IF cached_response # None
           THEN /\ tasks' = [tasks EXCEPT ![t] =
                                [call EXCEPT !.stream = <<Ok(cached_response[1])>>]]
                /\ calls' = [calls EXCEPT !.started = @ + 1]
                /\ reply' = NoReply
           ELSE IF opened[1] = "Err"
           THEN /\ reply' = Return(t, op, prompt, max_tokens, FALSE, opened)
                /\ calls' = [started |-> calls.started + 1,
                             upstream |-> calls.upstream + 1,
                             last |-> Some(opened)]
                /\ UNCHANGED tasks
           ELSE /\ tasks' = [tasks EXCEPT ![t] =
                                [call EXCEPT !.collected = Some(String("", 0)),
                                             !.missed = TRUE]]
                /\ calls' = [started |-> calls.started + 1,
                             upstream |-> calls.upstream + 1,
                             last |-> Some(opened)]
                /\ reply' = NoReply
        /\ UNCHANGED <<cache, inserted, wlock>>

\* the end of a stream as the consumer sees it, after so many items, and the
\* text the unfold had collected
Ended(t) ==
    [NoReply EXCEPT
        !.task = t, !.op = tasks[t].op,
        !.key = hash_prompt(tasks[t].prompt[1], tasks[t].max_tokens),
        !.hit = ~tasks[t].missed, !.ended = TRUE,
        !.items = Len(tasks[t].delivered), !.response = tasks[t].collected]

\* stream.next().await by the consumer; reply tells what the last step of a
\* stream returned, if it returned.  On a miss it runs the closure of
\* the unfold, which polls the stream of the wrapped client: an Ok chunk is
\* collected and passed on, an error is passed on, and at the end the
\* collected text is inserted if it is not empty and the write lock is free.
\* On a hit stream::once yields its one item and then ends
Poll_drops_errors(t, next) ==
    LET task == tasks[t]
    IN  /\ task.pc = "streaming"
        /\ IF task.missed
           THEN /\ next # None => HeldItems(NumTasks) < MaxChunks
                /\ calls' = [calls EXCEPT !.last = Some(next)]
                /\ IF next # None
                   THEN /\ tasks' = [tasks EXCEPT
                                ![t].collected =
                                    IF next[1][1] = "Ok"
                                    THEN Some(push_str(task.collected[1], next[1][2]))
                                    ELSE task.collected,
                                ![t].delivered =
                                    IF next[1][1] = "Ok"
                                    THEN Append(task.delivered, next[1])
                                    ELSE task.delivered]
                        /\ reply' = NoReply
                        /\ UNCHANGED <<cache, inserted>>
                   ELSE /\ tasks' = [tasks EXCEPT ![t] = NoTask]
                        /\ reply' = Ended(t)
                        /\ IF task.collected[1].len # 0 /\ try_write
                           THEN TaskInsert(task.prompt[1], task.max_tokens,
                                           task.collected[1], FALSE)
                           ELSE UNCHANGED <<cache, inserted>>
           ELSE /\ next = None
                /\ UNCHANGED <<cache, inserted, calls>>
                /\ IF task.stream # <<>>
                   THEN /\ tasks' = [tasks EXCEPT
                                ![t].stream = Tail(task.stream),
                                ![t].delivered =
                                    Append(task.delivered, Head(task.stream))]
                        /\ reply' = NoReply
                   ELSE /\ tasks' = [tasks EXCEPT ![t] = NoTask]
                        /\ reply' = Ended(t)
        /\ UNCHANGED wlock

Poll_forgets_at_error(t, next) ==
    LET task == tasks[t]
    IN  /\ task.pc = "streaming"
        /\ IF task.missed
           THEN /\ next # None => HeldItems(NumTasks) < MaxChunks
                /\ calls' = [calls EXCEPT !.last = Some(next)]
                /\ IF next # None
                   THEN /\ tasks' = [tasks EXCEPT
                                ![t].collected =
                                    IF next[1][1] = "Ok"
                                    THEN Some(push_str(task.collected[1], next[1][2]))
                                    ELSE Some(String("", 0)),
                                ![t].delivered = Append(task.delivered, next[1])]
                        /\ reply' = NoReply
                        /\ UNCHANGED <<cache, inserted>>
                   ELSE /\ tasks' = [tasks EXCEPT ![t] = NoTask]
                        /\ reply' = Ended(t)
                        /\ IF task.collected[1].len # 0 /\ try_write
                           THEN TaskInsert(task.prompt[1], task.max_tokens,
                                           task.collected[1], FALSE)
                           ELSE UNCHANGED <<cache, inserted>>
           ELSE /\ next = None
                /\ UNCHANGED <<cache, inserted, calls>>
                /\ IF task.stream # <<>>
                   THEN /\ tasks' = [tasks EXCEPT
                                ![t].stream = Tail(task.stream),
                                ![t].delivered =
                                    Append(task.delivered, Head(task.stream))]
                        /\ reply' = NoReply
                   ELSE /\ tasks' = [tasks EXCEPT ![t] = NoTask]
                        /\ reply' = Ended(t)
        /\ UNCHANGED wlock

Poll(t, next) ==
    LET task == tasks[t]
    IN  /\ task.pc = "streaming"
        /\ IF task.missed
           THEN /\ next # None => HeldItems(NumTasks) < MaxChunks
                /\ calls' = [calls EXCEPT !.last = Some(next)]
                /\ IF next # None
                   THEN /\ tasks' = [tasks EXCEPT
                                ![t].collected =
                                    IF next[1][1] = "Ok"
                                    THEN Some(push_str(task.collected[1], next[1][2]))
                                    ELSE task.collected,
                                ![t].delivered = Append(task.delivered, next[1])]
                        /\ reply' = NoReply
                        /\ UNCHANGED <<cache, inserted>>
                   ELSE /\ tasks' = [tasks EXCEPT ![t] = NoTask]
                        /\ reply' = Ended(t)
                        /\ IF task.collected[1].len # 0 /\ try_write
                           THEN TaskInsert(task.prompt[1], task.max_tokens,
                                           task.collected[1], FALSE)
                           ELSE UNCHANGED <<cache, inserted>>
           ELSE /\ next = None
                /\ UNCHANGED <<cache, inserted, calls>>
                /\ IF task.stream # <<>>
                   THEN /\ tasks' = [tasks EXCEPT
                                ![t].stream = Tail(task.stream),
                                ![t].delivered =
                                    Append(task.delivered, Head(task.stream))]
                        /\ reply' = NoReply
                   ELSE /\ tasks' = [tasks EXCEPT ![t] = NoTask]
                        /\ reply' = Ended(t)
        /\ UNCHANGED wlock

\* the consumer drops the stream without polling it again
Drop(t) ==
    /\ tasks[t].pc = "streaming"
    /\ tasks' = [tasks EXCEPT ![t] = NoTask]
    /\ reply' = [Ended(t) EXCEPT !.ended = FALSE]
    /\ UNCHANGED <<cache, inserted, wlock, calls>>

\* the prompts of the streaming calls
StreamPrompts == {String("a", 1)}

\* what the wrapped client returns to the generate_with_options calls that
\* run beside the streams
StreamResults == {Ok(String("y", 1)), Err("Api")}

\* the tasks are interchangeable: a call is started by the first idle task
FirstIdle == CHOOSE t \in Tasks : Ready(t) /\ \A u \in Tasks : Ready(u) => t <= u

StreamGenerate ==
    \E t \in Tasks, prompt \in StreamPrompts, opened \in Openings :
        /\ calls.started < MaxCalls
        /\ \E u \in Tasks : Ready(u)
        /\ t = FirstIdle
        /\ Streaming(t, "generate_streaming", prompt, None, opened)
        /\ UNCHANGED <<now, limiterVars, projectVars, accessed, origin>>

StreamGenerateWithOptions ==
    \E t \in Tasks, prompt \in StreamPrompts, options \in TaskOptions,
       opened \in Openings :
        /\ calls.started < MaxCalls
        /\ \E u \in Tasks : Ready(u)
        /\ t = FirstIdle
        /\ Streaming(t, "generate_streaming_with_options", prompt,
                     options.max_tokens, opened)
        /\ UNCHANGED <<now, limiterVars, projectVars, accessed, origin>>

StreamPoll ==
    \E t \in Tasks, next \in Nexts :
        Poll(t, next) /\ UNCHANGED <<now, limiterVars, projectVars, accessed, origin>>

StreamDrop ==
    \E t \in Tasks :
        Drop(t) /\ UNCHANGED <<now, limiterVars, projectVars, accessed, origin>>

StreamOptionsLookup ==
    \E t \in Tasks, prompt \in StreamPrompts, options \in TaskOptions :
        /\ calls.started < MaxCalls
        /\ \E u \in Tasks : Ready(u)
        /\ t = FirstIdle
        /\ GenerateWithOptionsLookup(t, prompt, options)
        /\ UNCHANGED <<now, limiterVars, projectVars, accessed, origin>>

StreamOptionsUpstream ==
    \E t \in Tasks, outcome \in StreamResults, cleanup \in BOOLEAN :
        /\ GenerateWithOptionsUpstream(t, outcome, cleanup)
        /\ UNCHANGED <<now, limiterVars, projectVars, accessed, origin>>

NextStream ==
    \/ StreamGenerate
    \/ StreamGenerateWithOptions
    \/ StreamPoll
    \/ StreamDrop
    \/ StreamOptionsLookup
    \/ StreamOptionsUpstream

SpecStream == Init /\ [][NextStream]_vars

(***************************************************************************)
(* SpecProject: one ProjectCache under any sequence of insert_project,     *)
(* get_project, get_project_mut, invalidate_project and clean calls while  *)
(* the clock moves.                                                        *)
(***************************************************************************)
\* the history of use: the ids still stored, the one just used last
Used(order, id, c) ==
    SelectSeq(order, LAMBDA x : x # id /\ x \in DOMAIN c.projects)
        \o (IF id \in DOMAIN c.projects THEN <<id>> ELSE <<>>)

\* the history of use after a call that uses no project
StillStored(order, c) == SelectSeq(order, LAMBDA x : x \in DOMAIN c.projects)

\* cache.insert_project(project)
InsertProject(project) ==
    /\ project_cache' = insert_project(project_cache, project, now)
    /\ reply' = [NoReply EXCEPT
                    !.op = "insert_project", !.key = project,
                    !.replaced = project \in DOMAIN project_cache.projects,
                    !.evicted = DOMAIN project_cache.projects
                                    \ DOMAIN project_cache'.projects]
    /\ recency' = Used(recency, project, project_cache')

\* cache.get_project(project_id) and cache.get_project_mut(project_id)
GetProject(op, project_id) ==
    LET got == get_project(project_cache, project_id, now)
    IN  /\ project_cache' = got.c
        /\ reply' = [NoReply EXCEPT !.op = op, !.key = project_id,
                                    !.hit = got.found]
        /\ recency' = IF got.found THEN Used(recency, project_id, project_cache')
                      ELSE recency

\* cache.invalidate_project(project_id)
InvalidateProject(project_id) ==
    /\ project_cache' = invalidate_project(project_cache, project_id)
    /\ reply' = [NoReply EXCEPT !.op = "invalidate_project", !.key = project_id]
    /\ recency' = StillStored(recency, project_cache')

\* cache.clean()
CleanProjects ==
    /\ project_cache' = ProjectCache_clean(project_cache, now).c
    /\ reply' = [NoReply EXCEPT
                    !.op = "clean",
                    !.count = ProjectCache_clean(project_cache, now).count]
    /\ recency' = StillStored(recency, project_cache')

ProjectInsert ==
    \E project \in ProjectIds :
        /\ InsertProject(project)
        /\ UNCHANGED <<now, limiterVars, taskVars, cache, inserted, accessed,
                       origin>>

ProjectGet ==
    \E project_id \in ProjectIds :
        /\ GetProject("get_project", project_id)
        /\ UNCHANGED <<now, limiterVars, taskVars, cache, inserted, accessed,
                       origin>>

ProjectGetMut ==
    \E project_id \in ProjectIds :
        /\ GetProject("get_project_mut", project_id)
        /\ UNCHANGED <<now, limiterVars, taskVars, cache, inserted, accessed,
                       origin>>

ProjectInvalidate ==
    \E project_id \in ProjectIds :
        /\ InvalidateProject(project_id)
        /\ UNCHANGED <<now, limiterVars, taskVars, cache, inserted, accessed,
                       origin>>

ProjectClean ==
    /\ CleanProjects
    /\ UNCHANGED <<now, limiterVars, taskVars, cache, inserted, accessed, origin>>

\* the clock moves on by one TTL; no call is returning
ProjectTick ==
    /\ now < ProjectTicks * PROJECT_CACHE_TTL
    /\ now' = now + PROJECT_CACHE_TTL
    /\ reply' = NoReply
    /\ UNCHANGED <<limiterVars, taskVars, projectVars, cache, inserted,
                   accessed, origin>>

NextProject ==
    \/ ProjectInsert
    \/ ProjectGet
    \/ ProjectGetMut
    \/ ProjectInvalidate
    \/ ProjectClean
    \/ ProjectTick

SpecProject == Init /\ [][NextProject]_vars

(***************************************************************************)
(* SpecProviders: generate calls on the three provider clients, one at a   *)
(* time, with the limits reconfigured between them.  AnthropicClient and    *)
(* OpenAiClient run the same code with their own provider string;          *)
(* generate is generate_with_options with the default options.  An HTTP    *)
(* attempt and what the client does with its response are one step.        *)
(***************************************************************************)
\* the provider strings of AnthropicClient and OpenAiClient
ClientIds == {"anthropic", "openai"}

\* how an HTTP attempt ends: send() fails, the status is 429, the status is
\* another error, the status is a success and the body parses, the status is
\* a success and the body does not parse
HttpOutcomes == {"transport", "429", "status", "success", "unparsable"}

\* the attempts that failed
HttpFailures == {"transport", "429", "status"}

\* EnhancedAnthropicClient::generate: let max_retries = 3
max_retries == 3

\* the call returns
Returns(result) ==
    [client_call EXCEPT !.pc = "idle", !.result = Some(result)]

\* generate_with_options, its check: can_make_request(id), and the error
\* when it is denied
ClientGenerate(id) ==
    /\ client_call.pc = "idle"
    /\ CanMakeRequest(id)
    /\ client_call' =
           IF ret'.allow
           THEN [NoRequest EXCEPT !.client = id, !.pc = "record",
                                  !.started = client_call.started + 1]
           ELSE [NoRequest EXCEPT !.client = id,
                                  !.result = Some(Err("Api")),
                                  !.started = client_call.started + 1]

\* generate_with_options: record_request(id), then the call of send_request
ClientRecord(id) ==
    /\ client_call.client = id
    /\ client_call.pc = "record"
    /\ RecordRequest(id)
    /\ client_call' = [client_call EXCEPT !.pc = "send_request",
                                  !.recorded = @ + 1]

\* send_request, its check: can_make_request(id), and the error when it is
\* denied, which generate_with_options passes on
SendRequestCheck(id) ==
    /\ client_call.client = id
    /\ client_call.pc = "send_request"
    /\ CanMakeRequest(id)
    /\ client_call' = IF ret'.allow
                  THEN [client_call EXCEPT !.pc = "send_record"]
                  ELSE Returns(Err("RateLimit"))

\* send_request: record_request(id) before the HTTP request is built
SendRequestRecord(id) ==
    /\ client_call.client = id
    /\ client_call.pc = "send_record"
    /\ RecordRequest(id)
    /\ client_call' = [client_call EXCEPT !.pc = "send", !.recorded = @ + 1]

\* send_request from send() on, and generate_with_options after it: a failed
\* send calls record_failure, status 429 calls record_rate_limit, another
\* error status and a success call nothing
SendRequest(id, outcome) ==
    /\ client_call.client = id
    /\ client_call.pc = "send"
    /\ client_call' =
           [Returns(IF outcome = "success" THEN Ok("text")
                    ELSE IF outcome = "429" THEN Err("RateLimit")
                    ELSE Err("Api"))
               EXCEPT !.attempts = @ + 1, !.outcome = outcome, !.recorded = 0]
    /\ IF outcome = "transport" THEN RecordFailure(id)
       ELSE IF outcome = "429" THEN RecordRateLimit(id)
       ELSE UNCHANGED <<providers, now, poisoned, ret>>

\* EnhancedAnthropicClient::generate, its check
EnhancedGenerate == ClientGenerate("anthropic_enhanced")

\* EnhancedAnthropicClient::generate: record_request, the request body,
\* retry_count = 0
EnhancedRecord ==
    /\ client_call.client = "anthropic_enhanced"
    /\ client_call.pc = "record"
    /\ RecordRequest("anthropic_enhanced")
    /\ client_call' = [client_call EXCEPT !.pc = "send", !.recorded = @ + 1,
                                  !.retry_count = 0]

\* one turn of the loop of EnhancedAnthropicClient::generate: a success
\* calls record_success and returns; a failure calls record_failure and,
\* while retry_count < max_retries, goes to sleep for the delay returned
EnhancedAttempt_one_more_retry(outcome) ==
    /\ client_call.client = "anthropic_enhanced"
    /\ client_call.pc = "send"
    /\ IF outcome \in HttpFailures
       THEN /\ RecordFailure("anthropic_enhanced")
            /\ client_call' =
                   IF client_call.retry_count <= max_retries
                   THEN [client_call EXCEPT
                            !.pc = "sleep", !.retry_count = @ + 1,
                            !.backoff_ms = ret'.delay,
                            !.attempts = @ + 1, !.outcome = outcome,
                            !.recorded = 0]
                   ELSE [Returns(IF outcome = "transport" THEN Err("Network")
                                 ELSE Err("Api"))
                            EXCEPT !.backoff_ms = ret'.delay,
                                   !.attempts = @ + 1, !.outcome = outcome,
                                   !.recorded = 0]
       ELSE /\ RecordSuccess("anthropic_enhanced")
            /\ client_call' =
                   [Returns(IF outcome = "success" THEN Ok("text")
                            ELSE Err("Api"))
                       EXCEPT !.attempts = @ + 1, !.outcome = outcome,
                              !.recorded = 0]

EnhancedAttempt(outcome) ==
    /\ client_call.client = "anthropic_enhanced"
    /\ client_call.pc = "send"
    /\ IF outcome \in HttpFailures
       THEN /\ RecordFailure("anthropic_enhanced")
            /\ client_call' =
                   IF client_call.retry_count < max_retries
                   THEN [client_call EXCEPT
                            !.pc = "sleep", !.retry_count = @ + 1,
                            !.backoff_ms = ret'.delay,
                            !.attempts = @ + 1, !.outcome = outcome,
                            !.recorded = 0]
                   ELSE [Returns(IF outcome = "transport" THEN Err("Network")
                                 ELSE Err("Api"))
                            EXCEPT !.backoff_ms = ret'.delay,
                                   !.attempts = @ + 1, !.outcome = outcome,
                                   !.recorded = 0]
       ELSE /\ RecordSuccess("anthropic_enhanced")
            /\ client_call' =
                   [Returns(IF outcome = "success" THEN Ok("text")
                            ELSE Err("Api"))
                       EXCEPT !.attempts = @ + 1, !.outcome = outcome,
                              !.recorded = 0]

\* tokio::time::sleep(Duration::from_millis(backoff_ms)).await; continue.
\* The clock of the model counts seconds
EnhancedSleep ==
    /\ client_call.client = "anthropic_enhanced"
    /\ client_call.pc = "sleep"
    /\ now' = now + (client_call.backoff_ms \div 1000)
    /\ ret' = NoCall
    /\ client_call' = [client_call EXCEPT !.pc = "send"]
    /\ UNCHANGED <<providers, poisoned>>

ProviderGenerate ==
    \E id \in ClientIds :
        /\ client_call.started < MaxGenerates
        /\ ClientGenerate(id)
        /\ UNCHANGED <<histVars, callerVars, cacheVars, taskVars, projectVars>>

ProviderRecord ==
    \E id \in ClientIds :
        /\ ClientRecord(id)
        /\ UNCHANGED <<histVars, callerVars, cacheVars, taskVars, projectVars>>

ProviderSendCheck ==
    \E id \in ClientIds :
        /\ SendRequestCheck(id)
        /\ UNCHANGED <<histVars, callerVars, cacheVars, taskVars, projectVars>>

ProviderSendRecord ==
    \E id \in ClientIds :
        /\ SendRequestRecord(id)
        /\ UNCHANGED <<histVars, callerVars, cacheVars, taskVars, projectVars>>

ProviderSend ==
    \E id \in ClientIds, outcome \in HttpOutcomes :
        /\ SendRequest(id, outcome)
        /\ UNCHANGED <<histVars, callerVars, cacheVars, taskVars, projectVars>>

ProviderEnhancedGenerate ==
    /\ client_call.started < MaxGenerates
    /\ EnhancedGenerate
    /\ UNCHANGED <<histVars, callerVars, cacheVars, taskVars, projectVars>>

ProviderEnhancedRecord ==
    /\ EnhancedRecord
    /\ UNCHANGED <<histVars, callerVars, cacheVars, taskVars, projectVars>>

ProviderEnhancedAttempt ==
    \E outcome \in HttpOutcomes :
        /\ EnhancedAttempt(outcome)
        /\ UNCHANGED <<histVars, callerVars, cacheVars, taskVars, projectVars>>

ProviderEnhancedSleep ==
    /\ EnhancedSleep
    /\ UNCHANGED <<histVars, callerVars, cacheVars, taskVars, projectVars>>

\* set_rate_limit by the application, between two calls of the clients
ProviderSetLimit ==
    \E id \in ClientIds \cup {"anthropic_enhanced"}, rpm \in 0 .. MaxRpm :
        /\ client_call.pc = "idle"
        /\ SetRateLimit(id, rpm)
        /\ UNCHANGED <<histVars, callerVars, cacheVars, taskVars, projectVars,
                       client_call>>

NextProviders ==
    \/ ProviderGenerate
    \/ ProviderRecord
    \/ ProviderSendCheck
    \/ ProviderSendRecord
    \/ ProviderSend
    \/ ProviderEnhancedGenerate
    \/ ProviderEnhancedRecord
    \/ ProviderEnhancedAttempt
    \/ ProviderEnhancedSleep
    \/ ProviderSetLimit

SpecProviders == Init /\ [][NextProviders]_vars

\* the runtime polls a task whose await is ready: a call that has been
\* admitted records it, every HTTP attempt comes to an end, and
\* every sleep is over after its delay
SpecProvidersFair ==
    /\ SpecProviders
    /\ WF_vars(ProviderEnhancedRecord)
    /\ WF_vars(ProviderEnhancedAttempt)
    /\ WF_vars(ProviderEnhancedSleep)

(***************************************************************************)
(* Properties of the sliding window                                        *)
(***************************************************************************)
\* the recorded timestamps of provider P that are less than 60 seconds old
InWindow(P) == {i \in DOMAIN log[P] : now - log[P][i] < 60}

ClaimedDefault(P) == IF P = "OpenAI" THEN 60 ELSE 30

\* the last value passed to set_rate_limit, or else the built-in default
ClaimedLimit(P) == IF configured[P] = -1 THEN ClaimedDefault(P) ELSE configured[P]

\* every window of 60 seconds that ends at a recorded request holds at most
\* rpm_limit recorded requests
WindowWithinLimit(P) ==
    \A i \in DOMAIN log[P] :
        Cardinality({j \in DOMAIN log[P] :
                        log[P][j] <= log[P][i] /\ log[P][i] - log[P][j] < 60})
            <= providers[P].rpm_limit

\* C1: with limit L configured for a provider and exactly L requests admitted
\* and recorded, can_make_request returns false while all L are less than 60
\* seconds old and true once all L are at least 60 seconds old (L >= 1).
C1_DeniedAtLimitAdmittedAfterWindow ==
    ret.op = "can_make_request" =>
        LET P == From(ret.id)
            L == configured[P]
        IN  (L >= 1 /\ Len(log[P]) = L) =>
                /\ (\A i \in DOMAIN log[P] : now - log[P][i] < 60) => ~ret.allow
                /\ (\A i \in DOMAIN log[P] : now - log[P][i] >= 60) => ret.allow

C1_Witness ==
    /\ ret.op = "can_make_request"
    /\ ret.allow
    /\ configured[From(ret.id)] = 2
    /\ Len(log[From(ret.id)]) = 2
    /\ \A i \in DOMAIN log[From(ret.id)] : now - log[From(ret.id)][i] >= 60

\* C2: can_make_request returns true exactly when fewer than rpm_limit of the
\* provider's recorded timestamps are less than 60 seconds old; rpm_limit is
\* the last value given to set_rate_limit, else 30 (60 for OpenAI); no
\* timestamp less than 60 seconds old is ever discarded.
C2_CheckDecidesByWindowAndLimit ==
    /\ \A P \in Provider : providers[P].rpm_limit = ClaimedLimit(P)
    /\ \A P \in Provider :
          SelectSeq(providers[P].requests, LAMBDA t : now - t < 60)
              = SelectSeq(log[P], LAMBDA t : now - t < 60)
    /\ ret.op = "can_make_request" =>
          ret.allow = (Cardinality(InWindow(From(ret.id))) < ClaimedLimit(From(ret.id)))

C2_Witness ==
    /\ ret.op = "can_make_request"
    /\ ~ret.allow
    /\ configured[From(ret.id)] = 1
    /\ Len(providers[From(ret.id)].requests) = 2
    /\ Cardinality(InWindow(From(ret.id))) = 2

\* C8: with concurrent callers that record only after can_make_request
\* returned true, no 60-second window holds more recorded timestamps than the
\* provider's rpm_limit.
C8_WindowNeverExceedsLimit == \A P \in Provider : WindowWithinLimit(P)

\* C9: with check and record in one critical section of the limiter lock,
\* every admitted request is in the window exactly once (the window is the
\* recorded history less the expired timestamps, and the test's counter
\* equals the number recorded) and no 60-second window exceeds rpm_limit.
C9_LockedCallersCountExactly ==
    LET P == "Custom"
        reqs == providers[P].requests
        k == Len(log[P]) - Len(reqs)
    IN  /\ request_count = Len(log[P])
        /\ k >= 0
        /\ reqs = SubSeq(log[P], k + 1, Len(log[P]))
        /\ \A i \in 1 .. k : now - log[P][i] >= 60
        /\ WindowWithinLimit(P)

C9_Witness ==
    /\ request_count = 2
    /\ configured["Custom"] = 2
    /\ ret.op = "check_rate_limit"
    /\ ~ret.allow
    /\ Len(providers["Custom"].requests) = 2


(***************************************************************************)
(* Properties of the backoff                                               *)
(***************************************************************************)
ClaimedMin(a, b) == IF a <= b THEN a ELSE b

\* C3: the i-th record_failure in a row, counted from a fresh or just reset
\* provider with no record_rate_limit in between, returns
\* min(1000 * 2^(i-1), 60000) ms, which is also the stored delay.
C3_FailureDelayDoublesToCap ==
    (ret.op = "record_failure" /\ streak[From(ret.id)].pure) =>
        /\ ret.delay = ClaimedMin(1000 * 2 ^ (streak[From(ret.id)].count - 1), 60000)
        /\ ret.delay = providers[From(ret.id)].last_backoff_delay_ms

C3_Witness ==
    /\ ret.op = "record_failure"
    /\ streak[From(ret.id)].pure
    /\ streak[From(ret.id)].reset
    /\ streak[From(ret.id)].count = 7
    /\ ret.delay = 60000

\* C4: the first record_failure after a record_success returns 1000 ms,
\* whatever number of failure or rate-limit events preceded the success.
C4_SuccessResetsNextFailure ==
    (/\ ret.op = "record_failure"
     /\ streak[From(ret.id)].reset
     /\ streak[From(ret.id)].count = 1) => ret.delay = 1000

C4_Witness ==
    /\ ret.op = "record_failure"
    /\ streak[From(ret.id)].reset
    /\ streak[From(ret.id)].count = 1
    /\ streak[From(ret.id)].prior >= 6
    /\ ret.delay = 1000

\* C5: every provider's delay stays within 1000 .. 60000 ms, and a
\* record_failure or record_rate_limit event never lowers the delay of its
\* provider.
C5_DelayBoundedAndNonDecreasing ==
    [][\A P \in Provider :
          /\ providers'[P].last_backoff_delay_ms >= 1000
          /\ providers'[P].last_backoff_delay_ms <= 60000
          /\ (ret'.op \in {"record_failure", "record_rate_limit"} /\ From(ret'.id) = P)
                => providers'[P].last_backoff_delay_ms
                       >= providers[P].last_backoff_delay_ms]_vars

C5_Witness ==
    /\ ret.op = "record_failure"
    /\ ~streak[From(ret.id)].pure
    /\ streak[From(ret.id)].count = 4
    /\ ret.delay = 16000

\* C6: record_rate_limit adds one to the consecutive-failure count and sets
\* the delay to min(1000 * 2^n, 60000) ms for the new count n, whatever the
\* delay was; that is 2000 ms as a first failure, where record_failure gives
\* 1000 ms, and never less than record_failure gives from the same state.
C6_RateLimitRecomputesFromCount ==
    [][ret'.op = "record_rate_limit" =>
          LET P == From(ret'.id)
              n == providers'[P].consecutive_failures
              d == providers'[P].last_backoff_delay_ms
              f == record_failure(providers[P]).last_backoff_delay_ms
          IN  /\ n = providers[P].consecutive_failures + 1
              /\ n = streak'[P].count
              /\ d = ClaimedMin(1000 * 2 ^ n, 60000)
              /\ d >= f
              /\ n = 1 => (d = 2000 /\ f = 1000)]_vars

C6_Witness ==
    /\ ret.op = "record_rate_limit"
    /\ streak[From(ret.id)].count = 1
    /\ providers[From(ret.id)].consecutive_failures = 1
    /\ providers[From(ret.id)].last_backoff_delay_ms = 2000


(***************************************************************************)
(* Properties of all public functions together                             *)
(***************************************************************************)
\* what the limiter holds for a provider string: window, limit and backoff
View(id) == providers[From(id)]

\* the two strings name the same provider: the Anthropic pair, or two strings
\* that are neither of the pair nor "openai"
ClaimedSameProvider(a, b) ==
    \/ a = b
    \/ {a, b} \subseteq {"anthropic", "anthropic_enhanced"}
    \/ {a, b} \cap {"anthropic", "anthropic_enhanced", "openai"} = {}

\* C7 as stated: a call for one provider string never changes what the
\* limiter holds for any other provider string.
C7_NoBleedBetweenStrings ==
    [][ret'.op \in {"record_request", "record_success", "record_failure",
                    "record_rate_limit", "set_rate_limit"} =>
          \A b \in Names \ {ret'.id} : View(b)' = View(b)]_vars

\* C7 amended: a call for one provider string never changes what the limiter
\* holds for a string of another provider (anthropic and anthropic_enhanced
\* are one provider, all strings other than these two and openai are one).
C7_NoBleedBetweenProviders ==
    [][ret'.op # "none" =>
          \A b \in Names :
              ~ClaimedSameProvider(ret'.id, b) => View(b)' = View(b)]_vars

C7_Witness ==
    /\ ret.op = "set_rate_limit"
    /\ ret.id = "openai"
    /\ View("openai").rpm_limit = 0
    /\ View("anthropic").consecutive_failures = 1
    /\ Len(View("anthropic_enhanced").requests) = 1
    /\ View("custom") = ProviderRateLimit_new(30)

\* C10: on a poisoned mutex no public function panics: can_make_request
\* returns true, record_failure returns 1000 ms, and every function leaves
\* the limiter as it was.
C10_PoisonedLockNeverPanics ==
    [][poisoned =>
          /\ ~ret'.panicked
          /\ providers' = providers
          /\ ret'.op = "can_make_request" => ret'.allow
          /\ ret'.op = "record_failure" => ret'.delay = 1000]_vars

(***************************************************************************)
(* Properties of the response cache                                        *)
(***************************************************************************)
\* how often a key stands in the eviction queue
Occurrences(q, k) == Cardinality({i \in DOMAIN q : q[i] = k})

\* C11: insert(k, v) followed at once by get(k) returns Some(v), whatever the
\* cache held: also when k was stored before (size() then counts k once: it
\* does not grow, and stays as it was when no other key left the cache) and
\* when the insert evicted other keys.
C11_InsertThenGetReturnsValue ==
    [][reply'.op = "insert" =>
          /\ \A p \in Prompts, m \in MaxTokens :
                hash_prompt(p, m) = reply'.key
                    => get(cache', p, m, now') = reply'.response
          /\ reply'.key \in DOMAIN cache.cache =>
                /\ size(cache') <= size(cache)
                /\ reply'.evicted = {} => size(cache') = size(cache)]_vars

C11_Witness ==
    /\ reply.op = "insert"
    /\ reply.replaced
    /\ reply.evicted # {}
    /\ cache.cache[reply.key].response = reply.response[1]
    /\ size(cache) = 1

\* C12: a get of a key whose last insert was at time T0 and which has not
\* left the cache returns the inserted response at every time T < T0 + TTL
\* and None at every time T >= T0 + TTL.
C12_ValidUntilTtl ==
    (reply.op = "get" /\ inserted.last[reply.key] # None) =>
        LET e == inserted.last[reply.key][1]
        IN  /\ now < e.at + 3600 => reply.result = Some(e.response)
            /\ now >= e.at + 3600 => reply.result = None

C12_Witness ==
    /\ reply.op = "get"
    /\ inserted.last[reply.key] # None
    /\ inserted.last[reply.key][1].at = 0
    /\ now = 3600
    /\ reply.result = None
    /\ reply.key \in DOMAIN cache.cache

\* C13: the number of stored entries never exceeds the item ceiling max_size.
C13_SizeWithinCeiling == size(cache) <= cache.max_size

C13_Witness ==
    /\ reply.op = "insert"
    /\ ~reply.replaced
    /\ Cardinality(reply.evicted) = 1
    /\ size(cache) = cache.max_size

\* the keys stored that no get has read since their insert
NotReaccessed == DOMAIN cache.cache \ accessed

\* the byte budget is the default of 1 GB, which no run of the model fills
BudgetNotBinding ==
    cache.max_memory_usage = DefaultCacheMb * 1024 * 1024

\* C14: with the byte budget not binding, the insert of a key that is not
\* stored evicts nothing while fewer than max_size keys are stored, and with
\* max_size keys stored it evicts exactly one key: the one inserted earliest
\* among the stored keys that get has not read since their insert.
C14_EvictsOldestNotReaccessed ==
    [][(reply'.op = "insert" /\ ~reply'.replaced /\ BudgetNotBinding) =>
          IF size(cache) < cache.max_size
          THEN reply'.evicted = {}
          ELSE /\ Cardinality(reply'.evicted) = 1
               /\ \A k \in reply'.evicted :
                     NotReaccessed # {} =>
                         /\ k \in NotReaccessed
                         /\ \A j \in NotReaccessed :
                               inserted.last[k][1].seq <= inserted.last[j][1].seq]_vars

RECURSIVE ClaimedBytes(_, _)
\* the sum over the keys S of response length + prompt length + 64
ClaimedBytes(c, S) ==
    IF S = {} THEN 0
    ELSE LET k == CHOOSE x \in S : TRUE
             prompt == CHOOSE q \in Prompts : q.text = k[1]
         IN  c.cache[k].response.len + prompt.len + 64 + ClaimedBytes(c, S \ {k})

\* C15: after every insert memory_usage() is at most max_memory_usage().
C15_UsageWithinBudgetAfterInsert ==
    reply.op = "insert" => memory_usage(cache) <= max_memory_usage(cache)

\* C16: memory_usage() is the sum over the stored entries of response length
\* + prompt length + 64, and so 0 when the cache is empty.
C16_UsageIsSumOfEntries ==
    memory_usage(cache) = ClaimedBytes(cache, DOMAIN cache.cache)

\* C17: the eviction queue holds every key of the map exactly once and no
\* other key, so its length is size().
C17_QueueMatchesMap ==
    /\ \A k \in DOMAIN cache.cache : Occurrences(cache.keys_queue, k) = 1
    /\ \A i \in DOMAIN cache.keys_queue : cache.keys_queue[i] \in DOMAIN cache.cache
    /\ Len(cache.keys_queue) = size(cache)

C17_Witness ==
    /\ reply.op = "clean"
    /\ reply.count = 1
    /\ size(cache) = 1
    /\ inserted.count = 3
    /\ Len(cache.keys_queue) = 1

\* the stored keys whose last insert is a TTL or more ago
ClaimedExpired ==
    {k \in DOMAIN cache.cache : now - inserted.last[k][1].at >= 3600}

\* C18: clean removes exactly the entries expired at the time of the call and
\* returns their number; every other entry keeps its value and timestamp,
\* the remaining keys keep their order in the eviction queue, and right
\* after clean every stored entry is valid.
C18_CleanRemovesExactlyExpired ==
    [][reply'.op = "clean" =>
          /\ DOMAIN cache'.cache = DOMAIN cache.cache \ ClaimedExpired
          /\ reply'.count = Cardinality(ClaimedExpired)
          /\ \A k \in DOMAIN cache'.cache : cache'.cache[k] = cache.cache[k]
          /\ cache'.keys_queue =
                 SelectSeq(cache.keys_queue, LAMBDA k : k \notin ClaimedExpired)
          /\ \A k \in DOMAIN cache'.cache :
                 now' - cache'.cache[k].cached_at < 3600]_vars

C18_Witness ==
    /\ reply.op = "clean"
    /\ reply.count = 1
    /\ now = 3600
    /\ \E k \in DOMAIN cache.cache : cache.cache[k].cached_at = 1800

\* C19: get leaves the cache as it was: map, eviction queue, size() and
\* memory_usage(); a get of an expired entry returns None and the entry stays
\* stored.
C19_GetLeavesCacheUnchanged ==
    [][reply'.op = "get" =>
          /\ cache'.cache = cache.cache
          /\ cache'.keys_queue = cache.keys_queue
          /\ size(cache') = size(cache)
          /\ memory_usage(cache') = memory_usage(cache)
          /\ reply'.key \in ClaimedExpired =>
                /\ reply'.result = None
                /\ reply'.key \in DOMAIN cache'.cache]_vars

C19_Witness ==
    /\ reply.op = "get"
    /\ reply.result = None
    /\ reply.key \in ClaimedExpired
    /\ size(cache) = 2
    /\ memory_usage(cache) >= 128

\* two requests are the same for the answer: same prompt, max_tokens,
\* temperature, top_p and functions
ClaimedSameRequest(a, b) ==
    /\ a.prompt = b.prompt
    /\ a.options.max_tokens = b.options.max_tokens
    /\ a.options.temperature = b.options.temperature
    /\ a.options.top_p = b.options.top_p
    /\ a.options.functions = b.options.functions

\* C20: a request answered from the cache receives a response that was made
\* for a request with the same prompt, max_tokens, temperature, top_p and
\* functions: requests that differ in one of these have different keys and
\* never receive each other's cached response.
C20_HitIsForSameRequest ==
    (reply.op = "generate_with_options" /\ reply.hit) =>
        /\ origin[reply.key] # None
        /\ ClaimedSameRequest(origin[reply.key][1], reply.request[1])

(***************************************************************************)
(* Properties of the caching client                                        *)
(***************************************************************************)
\* the entry the cache holds for a request according to the history of the
\* inserts, if it is younger than one hour
ClaimedValidEntry(prompt, max_tokens) ==
    LET e == inserted.last[<<prompt.text>> \o max_tokens]
    IN  IF e # None /\ now - e[1].at < 3600 THEN Some(e[1].response) ELSE None

\* task t starts a call of op for a request in this step: it is answered
\* from the cache at once, or goes to the wrapped client
Starts(t, op, prompt, max_tokens) ==
    /\ tasks[t].pc = "idle"
    /\ calls'.started = calls.started + 1
    /\ \/ /\ tasks'[t].pc # "idle"
          /\ tasks'[t].op = op
          /\ tasks'[t].prompt = Some(prompt)
          /\ tasks'[t].max_tokens = max_tokens
       \/ /\ tasks' = tasks
          /\ reply'.task = t
          /\ reply'.op = op
          /\ reply'.key = <<prompt.text>> \o max_tokens

\* the wrapped client answers the call of op of task t in this step
Answers(t, op) ==
    /\ tasks[t].pc \in {"upstream", "locked"}
    /\ tasks[t].op = op
    /\ tasks'[t].pc = "idle"

\* C21: generate(p) calls the wrapped client exactly when the cache holds no
\* valid entry for p: a generate(p) issued while the cache holds an entry for
\* p that is less than one hour old returns the text of that entry, the
\* response of the last successful call for p, without a call to the wrapped
\* client; any other generate(p) calls the wrapped client, and when that
\* call succeeds its response is returned and is the entry the cache holds
\* for p
C21_GenerateCallsWrappedOnlyOnMiss ==
    [][\A t \in Tasks, p \in Prompts :
          /\ Starts(t, "generate", p, None) =>
                LET e == ClaimedValidEntry(p, None)
                IN  IF e # None
                    THEN /\ tasks'[t].pc = "idle"
                         /\ reply'.result = e
                         /\ reply'.failure = None
                         /\ calls'.upstream = calls.upstream
                    ELSE /\ tasks'[t].pc = "upstream"
                         /\ calls'.upstream = calls.upstream + 1
          /\ (/\ Answers(t, "generate")
              /\ tasks[t].prompt = Some(p)
              /\ calls'.last[1][1] = "Ok") =>
                /\ calls'.upstream = calls.upstream
                /\ reply'.result = Some(calls'.last[1][2])
                /\ ClaimedValidEntry(p, None)' = reply'.result
                /\ get(cache', p, None, now) = reply'.result]_vars

\* a second generate for a prompt has been answered from the cache with the
\* response of the one call of the wrapped client
C21_Witness ==
    /\ reply.op = "generate"
    /\ reply.hit
    /\ calls.started = 2
    /\ calls.upstream = 1
    /\ calls.last # None
    /\ calls.last[1] = Ok(reply.result[1])
    /\ inserted.count = 1
    /\ inserted.last[reply.key] # None

\* C22: when the wrapped client returns an error, generate and
\* generate_with_options return that error and leave the cache as it was, so
\* no entry is stored for the request and the next identical call goes to the
\* wrapped client again
C22_ErrorReturnedAndNothingCached ==
    [][\A t \in Tasks, op \in {"generate", "generate_with_options"} :
          /\ (Answers(t, op) /\ calls'.last[1][1] = "Err") =>
                /\ reply'.task = t
                /\ reply'.op = op
                /\ reply'.failure = Some(calls'.last[1][2])
                /\ reply'.result = None
                /\ cache' = cache
                /\ inserted' = inserted
          /\ \A p \in Prompts, max_tokens \in MaxTokens :
                (/\ reply.failure # None
                 /\ reply.key = <<p.text>> \o max_tokens
                 /\ ClaimedValidEntry(p, max_tokens) = None
                 /\ Starts(t, op, p, max_tokens)) =>
                    /\ tasks'[t].pc # "idle"
                    /\ calls'.upstream = calls.upstream + 1]_vars

\* a call has failed with the error of the wrapped client, nothing has been
\* cached, and the next call, for the same request, has gone to the wrapped
\* client
C22_Witness ==
    /\ reply.failure # None
    /\ calls.last = Some(Err(reply.failure[1]))
    /\ inserted.count = 0
    /\ calls.started = 2
    /\ calls.upstream = 2
    /\ \E t \in Tasks :
          /\ tasks[t].pc \in {"upstream", "locked"}
          /\ hash_prompt(tasks[t].prompt[1], tasks[t].max_tokens) = reply.key
          /\ \A u \in Tasks \ {t} : tasks[u].pc = "idle"

\* the text of the Ok chunks among items, in their order
RECURSIVE ClaimedText(_)
ClaimedText(items) ==
    IF items = <<>> THEN [text |-> "", len |-> 0]
    ELSE LET rest == ClaimedText(Tail(items))
             first == Head(items)
         IN  IF first[1] = "Ok"
             THEN [text |-> first[2].text \o rest.text,
                   len |-> first[2].len + rest.len]
             ELSE rest

\* task t is the consumer of the stream of a call of op for a request
Consumes(t, op, prompt, max_tokens) ==
    /\ tasks[t].pc = "streaming"
    /\ tasks[t].op = op
    /\ tasks[t].prompt = Some(prompt)
    /\ tasks[t].max_tokens = max_tokens

\* the consumer of task t receives an item in this step
Receives(t) ==
    /\ tasks[t].pc = "streaming"
    /\ tasks'[t].pc = "streaming"
    /\ tasks'[t] # tasks[t]

\* the consumer of task t is told the end of its stream in this step
SeesEnd(t) ==
    /\ tasks[t].pc = "streaming"
    /\ tasks'[t].pc = "idle"
    /\ reply'.ended

StreamOps == {"generate_streaming", "generate_streaming_with_options"}

\* C23: on a cache miss a streaming call delivers exactly the items of the
\* wrapped client's stream, in its order, and once the stream has ended a get
\* for the request returns the concatenation of all chunks; on a cache hit
\* the stream is the one chunk that is the cached value, and the wrapped
\* client is not called
C23_StreamDeliversAndCaches ==
    [][/\ \A item \in Items :
            (calls'.last = Some(Some(item)) /\ calls'.last # calls.last) =>
                \E u \in Tasks :
                    /\ tasks[u].pc = "streaming"
                    /\ tasks[u].missed
                    /\ tasks'[u].delivered = Append(tasks[u].delivered, item)
       /\ \A t \in Tasks, op \in StreamOps, p \in StreamPrompts,
             max_tokens \in MaxTokens :
          /\ (Consumes(t, op, p, max_tokens) /\ tasks[t].missed) =>
                /\ Receives(t) =>
                      /\ calls'.last[1] # None
                      /\ tasks'[t].delivered
                             = Append(tasks[t].delivered, calls'.last[1][1])
                /\ SeesEnd(t) =>
                      /\ calls'.last[1] = None
                      /\ reply'.items = Len(tasks[t].delivered)
                      /\ get(cache', p, max_tokens, now)
                             = Some(ClaimedText(tasks[t].delivered))
          /\ (Starts(t, op, p, max_tokens)
                  /\ ClaimedValidEntry(p, max_tokens) # None) =>
                /\ calls'.upstream = calls.upstream
                /\ tasks'[t].pc = "streaming"
                /\ ~tasks'[t].missed
                /\ tasks'[t].delivered = <<>>
                /\ tasks'[t].stream = <<Ok(ClaimedValidEntry(p, max_tokens)[1])>>
          /\ (Consumes(t, op, p, max_tokens) /\ ~tasks[t].missed) =>
                /\ Receives(t) =>
                      /\ calls' = calls
                      /\ tasks[t].delivered = <<>>
                      /\ Len(tasks[t].stream) = 1
                      /\ tasks'[t].delivered = tasks[t].stream
                /\ SeesEnd(t) => calls' = calls /\ reply'.items = 1]_vars

\* C23 as amended: as C23, but after the end of a stream on a cache miss the
\* get returns the concatenation of the Ok chunks only if that text is not
\* empty and the write lock was free when the end was reached; otherwise the
\* cache is as it was
C23_StreamDeliversAndCachesIfWritten ==
    [][/\ \A item \in Items :
            (calls'.last = Some(Some(item)) /\ calls'.last # calls.last) =>
                \E u \in Tasks :
                    /\ tasks[u].pc = "streaming"
                    /\ tasks[u].missed
                    /\ tasks'[u].delivered = Append(tasks[u].delivered, item)
       /\ \A t \in Tasks, op \in StreamOps, p \in StreamPrompts,
             max_tokens \in MaxTokens :
          /\ (Consumes(t, op, p, max_tokens) /\ tasks[t].missed) =>
                /\ Receives(t) =>
                      /\ calls'.last[1] # None
                      /\ tasks'[t].delivered
                             = Append(tasks[t].delivered, calls'.last[1][1])
                /\ SeesEnd(t) =>
                      /\ calls'.last[1] = None
                      /\ reply'.items = Len(tasks[t].delivered)
                      /\ IF ClaimedText(tasks[t].delivered).len # 0 /\ wlock = 0
                         THEN get(cache', p, max_tokens, now)
                                  = Some(ClaimedText(tasks[t].delivered))
                         ELSE cache' = cache
          /\ (Starts(t, op, p, max_tokens)
                  /\ ClaimedValidEntry(p, max_tokens) # None) =>
                /\ calls'.upstream = calls.upstream
                /\ tasks'[t].pc = "streaming"
                /\ ~tasks'[t].missed
                /\ tasks'[t].delivered = <<>>
                /\ tasks'[t].stream = <<Ok(ClaimedValidEntry(p, max_tokens)[1])>>
          /\ (Consumes(t, op, p, max_tokens) /\ ~tasks[t].missed) =>
                /\ Receives(t) =>
                      /\ calls' = calls
                      /\ tasks[t].delivered = <<>>
                      /\ Len(tasks[t].stream) = 1
                      /\ tasks'[t].delivered = tasks[t].stream
                /\ SeesEnd(t) => calls' = calls /\ reply'.items = 1]_vars

\* a stream of two Ok chunks has been polled to its end after one call of
\* the wrapped client, and a get for its request returns the two chunks in
\* one text
C23_Witness ==
    /\ reply.ended
    /\ ~reply.hit
    /\ reply.op \in StreamOps
    /\ reply.items = 2
    /\ reply.response = Some([text |-> "xx", len |-> 2])
    /\ calls.upstream = 1
    /\ calls.last = Some(None)
    /\ reply.key \in DOMAIN cache.cache
    /\ cache.cache[reply.key].response = [text |-> "xx", len |-> 2]

\* C24: if another task holds the write lock when a streamed response is
\* complete, the write is skipped without blocking: the consumer is told the
\* end of the stream with no error item added, the cache is left as it was,
\* and a lookup of the request finds what it found before, so the next
\* identical request is a miss if none was stored
C24_HeldLockSkipsWrite ==
    [][\A t \in Tasks :
          (/\ SeesEnd(t)
           /\ tasks[t].missed
           /\ wlock # 0) =>
              /\ wlock # t
              /\ calls'.last = Some(None)
              /\ reply'.task = t
              /\ reply'.failure = None
              /\ reply'.items = Len(tasks[t].delivered)
              /\ cache' = cache
              /\ inserted' = inserted
              /\ wlock' = wlock
              /\ get(cache', tasks[t].prompt[1], tasks[t].max_tokens, now)
                     = get(cache, tasks[t].prompt[1], tasks[t].max_tokens, now)]_vars

\* a stream with text has been polled to its end while a call of
\* generate_with_options holds the write lock, and nothing has been cached
C24_Witness ==
    /\ wlock # 0
    /\ tasks[wlock].pc = "locked"
    /\ reply.ended
    /\ ~reply.hit
    /\ reply.task # wlock
    /\ reply.response # None
    /\ reply.response[1].len > 0
    /\ inserted.count = 0
    /\ reply.key \notin DOMAIN cache.cache

\* C25: after generate_streaming(p) on a cache miss has delivered its chunk
\* to the consumer, a second generate_streaming(p) is answered from the
\* cache, by the one chunk with the same text, without a call to the wrapped
\* client
C25_SecondStreamFromCache ==
    [][\A t \in Tasks, u \in Tasks, p \in StreamPrompts :
          (/\ u # t
           /\ Consumes(u, "generate_streaming", p, None)
           /\ tasks[u].missed
           /\ Len(tasks[u].delivered) = 1
           /\ tasks[u].delivered[1][1] = "Ok"
           /\ Starts(t, "generate_streaming", p, None)) =>
              /\ calls'.upstream = calls.upstream
              /\ tasks'[t].pc = "streaming"
              /\ ~tasks'[t].missed
              /\ tasks'[t].stream = tasks[u].delivered]_vars

C26_EvictsLruAndStaysWithinCeiling ==
    [][/\ (/\ reply'.op = "insert_project"
           /\ reply'.key \notin DOMAIN project_cache.projects
           /\ Cardinality(DOMAIN project_cache.projects) = MaxProjects) =>
              /\ reply'.evicted = {recency[1]}
              /\ DOMAIN project_cache'.projects
                     = (DOMAIN project_cache.projects \ {recency[1]})
                           \cup {reply'.key}
       /\ Cardinality(DOMAIN project_cache'.projects) <= MaxProjects]_vars

(***************************************************************************)
(* Properties of the rate limiter and its callers                          *)
(***************************************************************************)
\* C27: record_success, record_failure and record_rate_limit leave every
\* provider's request window and rpm_limit as they are, so a provider over
\* its limit is still denied after record_success; can_make_request and
\* record_request leave every provider's consecutive-failure count and
\* backoff delay as they are
C27_BackoffAndWindowAreSeparate ==
    [][\A P \in Provider :
          /\ ret'.op \in {"record_success", "record_failure", "record_rate_limit"} =>
                /\ providers'[P].requests = providers[P].requests
                /\ providers'[P].rpm_limit = providers[P].rpm_limit
                /\ (Cardinality({i \in DOMAIN providers[P].requests :
                                    now - providers[P].requests[i] < 60})
                        >= providers[P].rpm_limit) =>
                       ~check_rate_limit(providers', P, now).result
          /\ ret'.op \in {"can_make_request", "record_request"} =>
                /\ providers'[P].consecutive_failures
                       = providers[P].consecutive_failures
                /\ providers'[P].last_backoff_delay_ms
                       = providers[P].last_backoff_delay_ms]_vars

\* record_success has returned for a provider whose window is at its limit,
\* and the provider is still denied
C27_Witness ==
    \E P \in Provider :
        /\ ret.op = "record_success"
        /\ From(ret.id) = P
        /\ ret.acquired
        /\ providers[P].consecutive_failures = 0
        /\ providers[P].rpm_limit > 0
        /\ Len(providers[P].requests) >= providers[P].rpm_limit
        /\ \A i \in DOMAIN providers[P].requests :
               now - providers[P].requests[i] < 60
        /\ ~check_rate_limit(providers, P, now).result


\* an HTTP attempt of the call in progress comes to an end in this step
Attempts ==
    /\ client_call.pc = "send"
    /\ client_call'.attempts = client_call.attempts + 1

\* the functions that record how an attempt ended
OutcomeCalls == {"record_success", "record_failure", "record_rate_limit"}

\* C28: each provider client calls record_request exactly once before each
\* HTTP attempt and, after the attempt, exactly one of record_success,
\* record_failure and record_rate_limit, however the attempt ends
C28_RecordsAroundEachAttempt ==
    [][Attempts =>
          /\ client_call.recorded = 1
          /\ ret'.op \in OutcomeCalls
          /\ ret'.id = client_call.client]_vars

\* the call of EnhancedAnthropicClient::generate in progress
Enhanced == client_call.client = "anthropic_enhanced"

====
